---------------------------- MODULE Spec2Model ----------------------------
(***************************************************************************)
(* Rooftop detection and obstacle-aware solar panel placement              *)
(* (src/analyze_rooftop.py).                                               *)
(*                                                                         *)
(* Units.  The program computes with floats; the model computes with       *)
(* exact integers: lengths of the configuration in decimetres              *)
(* (panel_width_m = 1.0 is panel_width_dm = 10, panel_spacing_m = 0.1 is   *)
(* panel_spacing_dm = 1), fractions in percent, emitted coordinates in     *)
(* hundredths of a pixel (the program rounds them to two decimals).        *)
(* A mask is the set of its non-zero pixels <<row, col>>.                  *)
(***************************************************************************)
EXTENDS Integers, Sequences, FiniteSets, TLC

VARIABLES
    config,            \* the merged configuration of the run
    pc,                \* where the run is
    \* analyze_rooftop
    gray,              \* the image's intensities, pixel -> 0 .. 255
    roof_contour,      \* rooftop['contour']
    roof_angle,        \* rooftop['bounding_rect']['angle'], degrees
    roof_mask,         \* mask: the filled contour
    obstacle_mask,     \* what _detect_obstacles returned
    usable_mask,       \* the usable mask passed to the placement call
    \* _place_panels_optimized, _place_panels_with_orientation
    available,         \* this pass's working copy of the usable mask
    panels,            \* this pass's panels so far
    panel_id,          \* this pass's next panel id
    pos,               \* <<x, y>> of the scan
    scanned,           \* the positions the pass has examined, in order
    panels_landscape,  \* the first pass's result
    panels_portrait,   \* the second pass's result
    placed,            \* the list _place_panels_optimized returns
    before,            \* an earlier call on the same roof: its angle and lists
    \* _calculate_energy
    num_panels,        \* its argument
    energy_info,       \* the dictionary it returns
    \* analyze_image, main
    image_file,        \* what is at image_path: "missing", "undecodable", "ok"
    scene,             \* the rooftops that are in the image
    detect_called,     \* detect_rooftops has been called
    rooftops,          \* the list detect_rooftops returned
    cur,               \* the loop over rooftops: index of the next rooftop
    analyses,          \* the analyses appended so far
    report,            \* the JSON document written, << >> while none is
    result,            \* the dictionary analyze_image returned
    raised,            \* the exception that left analyze_image, or "none"
    exit_code,         \* main's exit status, -1 while running
    \* _non_max_suppression
    nms_in,            \* contours: the bounding boxes of its argument
    idxs,              \* the indices still to consider, by area
    keep,              \* the indices kept
    nms_pass,          \* 1: applied to the candidates, 2: to its own output
    nms_first,         \* what the first application returned
    nms_second,        \* what the second application returned
    \* _rate_suitability
    rated,             \* the arguments of the last call, << >> before any
    suitability,       \* the dictionary it returned
    prev_rated,        \* the arguments of the call before, same rooftop
    prev_suitability,  \* the dictionary that call returned
    \* detect_rooftops: the choice of the detection path
    det_gray,          \* the grey image, flattened
    det_path,          \* "none", "mask" (pre-segmented) or "raw"
    det_binary,        \* mask path: the indices of the pixels set by threshold
    \* legacy _calculate_panel_layout, _generate_panel_grid
    solar_zones,       \* the usable mask and its pixel count
    positions,         \* the grid positions appended so far
    grid_pos,          \* <<x, y>> of the grid loop
    panel_layout,      \* the dictionary returned, << >> before
    \* legacy batch_analyze_buildings, run_complete_analysis
    regularized,       \* the building contours: what analysing each gives
    batch_i,           \* the index i of the batch loop
    results,           \* the analyses appended so far
    solar_results,     \* the list batch_analyze_buildings returned
    annot_i,           \* the index i of the annotation loop
    labels,            \* the outlines drawn: contour index and label
    run_raised         \* the exception that left run_complete_analysis

roofVars == <<gray, roof_contour, roof_angle, roof_mask, obstacle_mask, usable_mask>>
placeVars == <<available, panels, panel_id, pos, scanned, panels_landscape,
               panels_portrait, placed, before>>
energyVars == <<num_panels, energy_info>>
runVars == <<image_file, scene, detect_called, rooftops, cur, analyses, report,
             result, raised, exit_code>>
nmsVars == <<nms_in, idxs, keep, nms_pass, nms_first, nms_second>>
suitVars == <<rated, suitability, prev_rated, prev_suitability>>
detVars == <<det_gray, det_path, det_binary>>
gridVars == <<solar_zones, positions, grid_pos, panel_layout>>
batchVars == <<regularized, batch_i, results, solar_results, annot_i, labels,
               run_raised>>
vars == <<config, pc, roofVars, placeVars, energyVars, runVars, nmsVars,
         suitVars, detVars, gridVars, batchVars>>

\* ------------------------------------------------------------------ bounds
MaskW == 10
MaskH == 4
MaxPanelPx == 5
MaxSpacingPx == 2
MaxPanels == 6

\* ----------------------------------------------------------------- helpers
Max2(a, b) == IF a >= b THEN a ELSE b
Min2(a, b) == IF a <= b THEN a ELSE b
Abs(a) == IF a >= 0 THEN a ELSE -a

\* Python's int(a / b): the quotient truncated toward zero (b # 0).
PyInt(a, b) ==
    IF (a >= 0) = (b > 0) THEN Abs(a) \div Abs(b) ELSE -(Abs(a) \div Abs(b))

Pixels == (0 .. MaskH - 1) \X (0 .. MaskW - 1)

\* The pixels of mask[y : y + ph, x : x + pw] (numpy slicing clips at the
\* mask's extent; pw, ph >= 0 and x, y >= 0 here).
Footprint(x, y, pw, ph) ==
    {p \in Pixels : /\ y <= p[1] /\ p[1] < y + ph
                    /\ x <= p[2] /\ p[2] < x + pw}

\* ------------------------------------------------------------ configuration
\* self.config = {**DEFAULT_CONFIG, **config}: a record of the merged keys.
\* system_loss_pct is a key the caller may supply; DEFAULT_CONFIG has no
\* such key and no line of analyze_rooftop.py reads it.
PanelWidthPx(cfg) == PyInt(cfg.panel_width_dm, cfg.pixel_to_dm)
PanelHeightPx(cfg) == PyInt(cfg.panel_height_dm, cfg.pixel_to_dm)

SpacingPxMutNoFloor(cfg) == PyInt(cfg.panel_spacing_dm, cfg.pixel_to_dm)
SpacingPx(cfg) == Max2(1, PyInt(cfg.panel_spacing_dm, cfg.pixel_to_dm))

\* --------------------------------------------------------- contour geometry
\* cv2.pointPolygonTest(contour, (px, py), False) for integer vertices and an
\* integer point: 0 on the boundary, 1 inside, -1 outside (edge by edge, the
\* library's crossing count).
EdgeFrom(contour, i) == contour[IF i = 1 THEN Len(contour) ELSE i - 1]

EdgeSkipped(v0, v, px, py) ==
    \/ (v0[2] <= py /\ v[2] <= py)
    \/ (v0[2] > py /\ v[2] > py)
    \/ (v0[1] < px /\ v[1] < px)

EdgeDist(v0, v, px, py) ==
    (py - v0[2]) * (v[1] - v0[1]) - (px - v0[1]) * (v[2] - v0[2])

OnEdge(v0, v, px, py) ==
    IF EdgeSkipped(v0, v, px, py)
    THEN /\ py = v[2]
         /\ \/ px = v[1]
            \/ /\ py = v0[2]
               /\ \/ (v0[1] <= px /\ px <= v[1])
                  \/ (v[1] <= px /\ px <= v0[1])
    ELSE EdgeDist(v0, v, px, py) = 0

EdgeCrossed(v0, v, px, py) ==
    /\ ~EdgeSkipped(v0, v, px, py)
    /\ (IF v[2] < v0[2] THEN -EdgeDist(v0, v, px, py)
                        ELSE EdgeDist(v0, v, px, py)) > 0

PointPolygonTest(contour, px, py) ==
    IF \E i \in 1 .. Len(contour) : OnEdge(EdgeFrom(contour, i), contour[i], px, py)
    THEN 0
    ELSE IF Cardinality({i \in 1 .. Len(contour) :
                 EdgeCrossed(EdgeFrom(contour, i), contour[i], px, py)}) % 2 = 0
         THEN -1
         ELSE 1

\* mask = zeros; cv2.drawContours(mask, [contour], -1, 255, -1): the filled
\* contour, boundary pixels included.
RoofMask(contour) ==
    {p \in Pixels : PointPolygonTest(contour, p[2], p[1]) >= 0}

\* The roof outlines the model analyses: the whole image, a 4 x 3 pixel
\* rectangle in its corner, a triangle, an L shape, and the whole image with
\* two one-pixel notches in its upper edge (at x = 1 and x = 5).
RectContour(x0, y0, x1, y1) == << <<x0, y0>>, <<x1, y0>>, <<x1, y1>>, <<x0, y1>> >>

Contours ==
    { RectContour(0, 0, MaskW - 1, MaskH - 1),
      RectContour(0, 0, 3, 2),
      << <<0, 0>>, <<MaskW - 1, 0>>, <<0, MaskH - 1>> >>,
      << <<0, 0>>, <<MaskW - 1, 0>>, <<MaskW - 1, 2>>, <<2, 2>>,
         <<2, MaskH - 1>>, <<0, MaskH - 1>> >>,
      << <<0, 0>>, <<1, 1>>, <<2, 0>>, <<4, 0>>, <<5, 1>>, <<6, 0>>,
         <<MaskW - 1, 0>>, <<MaskW - 1, MaskH - 1>>, <<0, MaskH - 1>> >> }

\* ---------------------------------------------------------- panel placement
\* for y in range(0, h - panel_h, step_y): for x in range(0, w - panel_w, step_x)
XStopMutNoPanel(pw) == MaskW
XStopMutInclusive(pw) == MaskW - pw + 1
XStop(pw) == MaskW - pw
YStop(ph) == MaskH - ph
StepXMutNoSpacing(pw, spacing) == Max2(1, pw)
StepXMutSpacingOnly(pw, spacing) == spacing
StepX(pw, spacing) == pw + spacing
StepY(ph, spacing) == ph + spacing

\* The panel size of the pass: landscape is (panel_width_px, panel_height_px),
\* portrait the two swapped.
PassW(pass, cfg) ==
    IF pass = "landscape" THEN PanelWidthPx(cfg) ELSE PanelHeightPx(cfg)
PassH(pass, cfg) ==
    IF pass = "landscape" THEN PanelHeightPx(cfg) ELSE PanelWidthPx(cfg)

\* _check_corners_in_contour: the four quarter-offset sample points, at least
\* three of them inside or on the contour (the multiset of the four matters:
\* two sample points coincide when a panel side is 1 pixel).
SamplePoints(x, y, w, h) ==
    << <<x + w \div 4, y + h \div 4>>,
       <<x + (3 * w) \div 4, y + h \div 4>>,
       <<x + w \div 4, y + (3 * h) \div 4>>,
       <<x + (3 * w) \div 4, y + (3 * h) \div 4>> >>

ValidCount(x, y, w, h, contour) ==
    Cardinality({i \in 1 .. 4 :
        PointPolygonTest(contour, SamplePoints(x, y, w, h)[i][1],
                                  SamplePoints(x, y, w, h)[i][2]) >= 0})

CheckCornersMutTwo(x, y, w, h, contour) == ValidCount(x, y, w, h, contour) >= 2
CheckCornersInContour(x, y, w, h, contour) == ValidCount(x, y, w, h, contour) >= 3

\* coverage = np.sum(panel_region > 0) / panel_region.size; coverage > 0.90
CoverageMutAtLeast(region, av) ==
    10 * Cardinality(region \cap av) >= 9 * Cardinality(region)
CoverageOk(region, av) ==
    10 * Cardinality(region \cap av) > 9 * Cardinality(region)

\* _create_panel_geometry for a roof angle of 0 or 90 degrees (cos and sin are
\* 0, 1 or -1 after the two-decimal rounding); coordinates in hundredths.
Rotate(dx, dy, angle) ==
    IF angle = 90 THEN <<-dy, dx>> ELSE <<dx, dy>>

CreatePanelGeometryMutTurned(id, x, y, width, height, angle) ==
    LET w == IF angle = 90 THEN height ELSE width
        h == IF angle = 90 THEN width ELSE height
        cx == 100 * x + 50 * w
        cy == 100 * y + 50 * h
        local == << <<100 * x, 100 * y>>,
                    <<100 * (x + w), 100 * y>>,
                    <<100 * (x + w), 100 * (y + h)>>,
                    <<100 * x, 100 * (y + h)>> >>
    IN  [ panel_id |-> id,
          center |-> <<cx, cy>>,
          corners |-> [i \in 1 .. 4 |->
              LET r == Rotate(local[i][1] - cx, local[i][2] - cy, angle)
              IN  <<cx + r[1], cy + r[2]>>],
          rotation_degrees |-> angle,
          width |-> w,
          height |-> h ]
CreatePanelGeometry(id, x, y, width, height, angle) ==
    LET cx == 100 * x + 50 * width
        cy == 100 * y + 50 * height
        local == << <<100 * x, 100 * y>>,
                    <<100 * (x + width), 100 * y>>,
                    <<100 * (x + width), 100 * (y + height)>>,
                    <<100 * x, 100 * (y + height)>> >>
    IN  [ panel_id |-> id,
          center |-> <<cx, cy>>,
          corners |-> [i \in 1 .. 4 |->
              LET r == Rotate(local[i][1] - cx, local[i][2] - cy, angle)
              IN  <<cx + r[1], cy + r[2]>>],
          rotation_degrees |-> angle,
          width |-> width,
          height |-> height ]

Scanning == pc \in {"landscape", "portrait"}
CurW == PassW(pc, config)
CurH == PassH(pc, config)
HasCandidate == pos[1] < XStop(CurW) /\ pos[2] < YStop(CurH)

NextPos ==
    IF pos[1] + StepX(CurW, SpacingPx(config)) < XStop(CurW)
    THEN <<pos[1] + StepX(CurW, SpacingPx(config)), pos[2]>>
    ELSE <<0, pos[2] + StepY(CurH, SpacingPx(config))>>

\* The loop as a sliding window would run it: the stride leaves out the panel
\* size and the footprint is judged against the mask as given, never marked.
PlaceCandidateMutSliding ==
    /\ Scanning
    /\ HasCandidate
    /\ LET x == pos[1]
           y == pos[2]
           region == Footprint(x, y, CurW, CurH)
       IN  /\ IF /\ region # {}
                 /\ CoverageOk(region, usable_mask)
                 /\ CheckCornersInContour(x, y, CurW, CurH, roof_contour)
              THEN /\ panels' = Append(panels,
                         CreatePanelGeometry(panel_id, x, y, CurW, CurH, roof_angle))
                   /\ panel_id' = panel_id + 1
              ELSE UNCHANGED <<panels, panel_id>>
           /\ pos' = IF x + SpacingPx(config) < XStop(CurW)
                     THEN <<x + SpacingPx(config), y>>
                     ELSE <<0, y + SpacingPx(config)>>
    /\ scanned' = Append(scanned, pos)
    /\ UNCHANGED <<config, gridVars, batchVars, suitVars, detVars,
                   pc, roofVars, energyVars, runVars, nmsVars, available,
                   panels_landscape, panels_portrait, placed,
                   before>>

\* The loop without `.copy()`: the pass zeroes the mask it was given.
PlaceCandidateMutAliased ==
    /\ Scanning
    /\ HasCandidate
    /\ LET x == pos[1]
           y == pos[2]
           region == Footprint(x, y, CurW, CurH)
       IN  IF /\ region # {}
              /\ CoverageOk(region, available)
              /\ CheckCornersInContour(x, y, CurW, CurH, roof_contour)
           THEN /\ panels' = Append(panels,
                      CreatePanelGeometry(panel_id, x, y, CurW, CurH, roof_angle))
                /\ panel_id' = panel_id + 1
                /\ available' = available \ region
                /\ usable_mask' = usable_mask \ region
           ELSE UNCHANGED <<panels, panel_id, available, usable_mask>>
    /\ pos' = NextPos
    /\ scanned' = Append(scanned, pos)
    /\ UNCHANGED <<config, gridVars, batchVars, suitVars, detVars, pc, gray, roof_contour,
                   roof_angle, roof_mask, obstacle_mask, energyVars, runVars,
                   nmsVars, panels_landscape, panels_portrait, placed, before>>

\* The loop without `panel_id += 1`.
PlaceCandidateMutSameId ==
    /\ Scanning
    /\ HasCandidate
    /\ LET x == pos[1]
           y == pos[2]
           region == Footprint(x, y, CurW, CurH)
       IN  IF /\ region # {}
              /\ CoverageOk(region, available)
              /\ CheckCornersInContour(x, y, CurW, CurH, roof_contour)
           THEN /\ panels' = Append(panels,
                      CreatePanelGeometry(panel_id, x, y, CurW, CurH, roof_angle))
                /\ available' = available \ region
           ELSE UNCHANGED <<panels, available>>
    /\ pos' = NextPos
    /\ scanned' = Append(scanned, pos)
    /\ UNCHANGED <<config, gridVars, batchVars, suitVars, detVars, pc, roofVars, energyVars,
                   runVars, nmsVars, panel_id, panels_landscape,
                   panels_portrait, placed, before>>

\* One iteration of the inner loop: the candidate at pos is examined and, when
\* accepted, emitted and its footprint zeroed in the working copy.
PlaceCandidate ==
    /\ Scanning
    /\ HasCandidate
    /\ LET x == pos[1]
           y == pos[2]
           region == Footprint(x, y, CurW, CurH)
       IN  IF /\ region # {}
              /\ CoverageOk(region, available)
              /\ CheckCornersInContour(x, y, CurW, CurH, roof_contour)
           THEN /\ panels' = Append(panels,
                      CreatePanelGeometry(panel_id, x, y, CurW, CurH, roof_angle))
                /\ panel_id' = panel_id + 1
                /\ available' = available \ region
           ELSE UNCHANGED <<panels, panel_id, available>>
    /\ pos' = NextPos
    /\ scanned' = Append(scanned, pos)
    /\ UNCHANGED <<config, gridVars, batchVars, suitVars, detVars,
                   pc, roofVars, energyVars, runVars, nmsVars,
                   panels_landscape, panels_portrait, placed,
                   before>>

\* return panels, and what _place_panels_optimized does with it: the second
\* pass starts from a fresh copy of the usable mask.
ReturnPanels ==
    /\ Scanning
    /\ ~HasCandidate
    /\ IF pc = "landscape"
       THEN /\ panels_landscape' = panels
            /\ pc' = "portrait"
            /\ panels' = << >>
            /\ panel_id' = 1
            /\ available' = usable_mask
            /\ pos' = <<0, 0>>
            /\ scanned' = << >>
            /\ UNCHANGED panels_portrait
       ELSE /\ panels_portrait' = panels
            /\ pc' = "choose"
            /\ UNCHANGED <<panels, panel_id, available, pos, scanned,
                           panels_landscape>>
    /\ UNCHANGED <<config, gridVars, batchVars, suitVars, detVars,
                   roofVars, energyVars, runVars, nmsVars, placed, before>>

\* The choice with the comparison strict: a tie goes to portrait.
ChooseOrientationMutStrict ==
    /\ pc = "choose"
    /\ placed' = IF Len(panels_landscape) > Len(panels_portrait)
                 THEN panels_landscape
                 ELSE panels_portrait
    /\ pc' = "placed"
    /\ UNCHANGED <<config, gridVars, batchVars, roofVars, energyVars, runVars, nmsVars, suitVars,
                   detVars, available, panels, panel_id, pos, scanned,
                   panels_landscape, panels_portrait, before>>

\* if len(panels_landscape) >= len(panels_portrait): return panels_landscape
ChooseOrientation ==
    /\ pc = "choose"
    /\ placed' = IF Len(panels_landscape) >= Len(panels_portrait)
                 THEN panels_landscape
                 ELSE panels_portrait
    /\ pc' = "placed"
    /\ UNCHANGED <<config, gridVars, batchVars, suitVars, detVars,
                   roofVars, energyVars, runVars, nmsVars, available,
                   panels, panel_id, pos, scanned, panels_landscape,
                   panels_portrait, before>>

\* The placement call's inputs: a configuration giving panel sides of
\* 0 .. MaxPanelPx pixels (and panels 7 pixels and the image wide) and a spacing of
\* 1 .. MaxSpacingPx pixels, a roof outline, its angle, and a usable mask
\* inside the outline (the filled outline less at most one excluded pixel).
PlaceConfigs ==
    [ latitude : {28},
      pixel_to_dm : {5},
      panel_width_dm : {5 * k + 2 : k \in 0 .. MaxPanelPx}
                           \cup {37, 5 * MaskW + 2},
      panel_height_dm : {5 * k + 2 : k \in 0 .. MaxPanelPx},
      panel_efficiency_pct : {20},
      panel_power_w : {300},
      panel_spacing_dm : {1} \cup {5 * k : k \in 2 .. MaxSpacingPx},
      edge_margin_pct : {10},
      system_loss_pct : {14} ]

ExcludedSets == {{}} \cup {{p} : p \in Pixels}

\* Each outline with its roof mask (the mask listed pixel by pixel, so that
\* it is computed once).
Listed(S) == UNION {{p} : p \in S}
Roofs == {<<c, Listed(RoofMask(c))>> : c \in Contours}

\* Before any call: nothing analysed, placed or estimated.
NoRoof ==
    /\ gray = << >>
    /\ roof_contour = << >>
    /\ roof_angle = 0
    /\ roof_mask = {}
    /\ obstacle_mask = {}
    /\ usable_mask = {}

NoPlacement ==
    /\ available = {}
    /\ panels = << >>
    /\ panel_id = 1
    /\ pos = <<0, 0>>
    /\ scanned = << >>
    /\ panels_landscape = << >>
    /\ panels_portrait = << >>
    /\ placed = << >>
    /\ before = << >>

NoEnergy ==
    /\ num_panels = 0
    /\ energy_info = << >>

NoRun ==
    /\ image_file = "ok"
    /\ scene = << >>
    /\ detect_called = FALSE
    /\ rooftops = << >>
    /\ cur = 1
    /\ analyses = << >>
    /\ report = << >>
    /\ result = << >>
    /\ raised = "none"
    /\ exit_code = -1

NoNms ==
    /\ nms_in = << >>
    /\ idxs = << >>
    /\ keep = << >>
    /\ nms_pass = 1
    /\ nms_first = << >>
    /\ nms_second = << >>

NoSuit ==
    /\ rated = << >>
    /\ suitability = << >>
    /\ prev_rated = << >>
    /\ prev_suitability = << >>

NoDet ==
    /\ det_gray = << >>
    /\ det_path = "none"
    /\ det_binary = {}

\* The optimizer as constructed: a configuration, and no call made yet.
NoLegacy ==
    /\ solar_zones = << >>
    /\ positions = << >>
    /\ grid_pos = <<0, 0>>
    /\ panel_layout = << >>
    /\ regularized = << >>
    /\ batch_i = 0
    /\ results = << >>
    /\ solar_results = << >>
    /\ annot_i = 0
    /\ labels = << >>
    /\ run_raised = "none"

InitPlace ==
    /\ config \in PlaceConfigs
    /\ pc = "idle"
    /\ NoRoof
    /\ NoPlacement
    /\ NoEnergy
    /\ NoRun
    /\ NoNms
    /\ NoSuit
    /\ NoLegacy
    /\ NoDet

\* _place_panels_optimized(usable_mask, roof_angle, roof_contour) is called and
\* enters its first pass: panels = [], panel_id = 1, available = copy.
StartPlacement ==
    /\ pc = "idle"
    /\ \E roof \in Roofs, ex \in ExcludedSets, a \in {0, 90} :
          /\ roof_contour' = roof[1]
          /\ roof_angle' = a
          /\ usable_mask' = roof[2] \ ex
          /\ available' = roof[2] \ ex
    /\ pc' = "landscape"
    /\ panels' = << >>
    /\ panel_id' = 1
    /\ pos' = <<0, 0>>
    /\ scanned' = << >>
    /\ UNCHANGED <<config, gridVars, batchVars, suitVars, detVars,
                   gray, roof_mask, obstacle_mask, energyVars, runVars, nmsVars,
                   panels_landscape, panels_portrait, placed,
                   before>>

\* 'panel_count': len(panels), 'panels': panels of the rooftop record.
RooftopRecord ==
    [ panel_count |-> Len(placed), panels |-> placed ]

NextPlace ==
    StartPlacement \/ PlaceCandidate \/ ReturnPanels \/ ChooseOrientation

SpecPlace == InitPlace /\ [][NextPlace]_vars

\* The same roof placed a second time, for the other roof angle: the first
\* call's lists are kept in `before` to compare the two calls.
AngleConfigs == {c \in PlaceConfigs : c.panel_spacing_dm = 1}

InitAngle ==
    /\ config \in AngleConfigs
    /\ pc = "idle"
    /\ NoRoof
    /\ NoPlacement
    /\ NoEnergy
    /\ NoRun
    /\ NoNms
    /\ NoSuit
    /\ NoLegacy
    /\ NoDet

PlaceAgainOtherAngle ==
    /\ pc = "placed"
    /\ before = << >>
    /\ before' = [angle |-> roof_angle, placed |-> placed,
                  landscape |-> panels_landscape, portrait |-> panels_portrait]
    /\ roof_angle' = 90 - roof_angle
    /\ available' = usable_mask
    /\ pc' = "landscape"
    /\ panels' = << >>
    /\ panel_id' = 1
    /\ pos' = <<0, 0>>
    /\ scanned' = << >>
    /\ UNCHANGED <<config, gridVars, batchVars, gray, roof_contour, roof_mask, obstacle_mask,
                   usable_mask, energyVars, runVars, nmsVars, suitVars,
                   detVars, panels_landscape, panels_portrait, placed>>

NextAngle == NextPlace \/ PlaceAgainOtherAngle

SpecAngle == InitAngle /\ [][NextAngle]_vars

\* ------------------------------------------------------ obstacles, usable area
\* Sum of f[p] over the pixels p of S.
RECURSIVE SumOver(_, _)
SumOver(S, f) ==
    IF S = {} THEN 0
    ELSE LET p == CHOOSE q \in S : TRUE
         IN  f[p] + SumOver(S \ {p}, f)

\* cv2.getStructuringElement(cv2.MORPH_ELLIPSE, (kw, kh)) as the set of its
\* cells' <<row, col>> offsets from the anchor (kh \div 2, kw \div 2).  Row dy
\* holds the columns within dx = round(c * sqrt(r*r - dy*dy) / r) of the anchor.
EllipseDx(c, r, dy) ==
    IF r = 0 THEN 0
    ELSE LET d == 4 * c * c * (r * r - dy * dy)
             lo(k) == (2 * k - 1) * (2 * k - 1) * r * r
             hi(k) == (2 * k + 1) * (2 * k + 1) * r * r
         IN  CHOOSE k \in 0 .. c + 1 :
                 /\ k = 0 \/ lo(k) < d \/ (lo(k) = d /\ k % 2 = 0)
                 /\ d < hi(k) \/ (d = hi(k) /\ k % 2 = 0)

EllipseKernel(kw, kh) ==
    LET r == kh \div 2
        c == kw \div 2
    IN  UNION { { <<i - r, j - c>> :
                    j \in Max2(c - EllipseDx(c, r, i - r), 0)
                          .. Min2(c + EllipseDx(c, r, i - r) + 1, kw) - 1 } :
                i \in {i \in 0 .. kh - 1 : Abs(i - r) <= r} }

\* cv2.erode and cv2.dilate, one iteration, default border (pixels outside the
\* image neither erode nor dilate).
Erode(mask, kernel) ==
    {p \in Pixels : \A k \in kernel :
        <<p[1] + k[1], p[2] + k[2]>> \in Pixels
            => <<p[1] + k[1], p[2] + k[2]>> \in mask}

Dilate(mask, kernel) ==
    {p \in Pixels : \E k \in kernel : <<p[1] + k[1], p[2] + k[2]>> \in mask}

\* cv2.morphologyEx(mask, cv2.MORPH_OPEN, kernel)
MorphOpen(mask, kernel) == Dilate(Erode(mask, kernel), kernel)

\* Method 3: internal contours of the roof mask.  The mask is one filled
\* outline (drawContours with thickness -1), so cv2.findContours finds no
\* contour that has a parent.
InternalMask(mask) == {}

\* pixel <= max(20, mean - 2 * std) and pixel > min(235, mean + 2 * std) over
\* the n roof pixels, whose intensities sum to s1 and whose squares to s2:
\* mean = s1 / n, std * std = (n * s2 - s1 * s1) / (n * n).  cv2.threshold
\* compares an 8-bit pixel with the floor of the threshold.
IsDark(g, n, s1, s2) ==
    \/ g <= 20
    \/ /\ s1 - n * g >= 0
       /\ 4 * (n * s2 - s1 * s1) <= (s1 - n * g) * (s1 - n * g)

IsBright(g, n, s1, s2) ==
    \/ g > 235
    \/ /\ n * g - s1 > 0
       /\ (n * g - s1) * (n * g - s1) > 4 * (n * s2 - s1 * s1)

\* _detect_obstacles(image, roof_mask)
DetectObstaclesOf(img, mask) ==
    IF mask = {} THEN {}
    ELSE LET n == Cardinality(mask)
             s1 == SumOver(mask, img)
             s2 == SumOver(mask, [p \in Pixels |-> img[p] * img[p]])
             dark_spots == {p \in mask : IsDark(img[p], n, s1, s2)}
             bright_spots == {p \in mask : IsBright(img[p], n, s1, s2)}
             combined == dark_spots \cup bright_spots \cup InternalMask(mask)
         IN  Listed(Dilate(Listed(MorphOpen(combined, EllipseKernel(3, 3))),
                           EllipseKernel(5, 5)))

\* margin_px = max(2, int(max(panel_width_px, panel_height_px) * edge_margin))
MarginPx(cfg) ==
    Max2(2, PyInt(Max2(PanelWidthPx(cfg), PanelHeightPx(cfg)) * cfg.edge_margin_pct,
                  100))

\* The eroded mask alone, the obstacles left in.
UsableOfMutKeepObstacles(mask, obstacles, cfg) ==
    Listed(Erode(mask, EllipseKernel(MarginPx(cfg), MarginPx(cfg))))
\* usable_mask = erode(mask, ellipse(margin_px)) & ~obstacle_mask
UsableOf(mask, obstacles, cfg) ==
    Listed(Erode(mask, EllipseKernel(MarginPx(cfg), MarginPx(cfg))) \ obstacles)

\* The images the model analyses: one intensity everywhere, or a plus-shaped
\* patch of a second intensity on a background.
Palette == {0, 20, 21, 128, 236}

Plus(q) ==
    {p \in Pixels : Abs(p[1] - q[1]) + Abs(p[2] - q[2]) <= 1}

Images ==
    {[p \in Pixels |-> v] : v \in 0 .. 255}
    \cup {[p \in Pixels |-> IF p \in Plus(q) THEN u ELSE v] :
            q \in Pixels, u \in Palette, v \in Palette}

ObstacleConfigs ==
    [ latitude : {28},
      pixel_to_dm : {5},
      panel_width_dm : {10},
      panel_height_dm : {25},
      panel_efficiency_pct : {20},
      panel_power_w : {300},
      panel_spacing_dm : {10},
      edge_margin_pct : {10, 60},
      system_loss_pct : {14} ]

InitObstacle ==
    /\ config \in ObstacleConfigs
    /\ pc = "idle"
    /\ NoRoof
    /\ NoPlacement
    /\ NoEnergy
    /\ NoRun
    /\ NoNms
    /\ NoSuit
    /\ NoLegacy
    /\ NoDet

\* analyze_rooftop(image, rooftop) is called: mask = the filled contour.
StartRooftop ==
    /\ pc = "idle"
    /\ \E img \in Images, roof \in Roofs, a \in {0, 90} :
          /\ gray' = img
          /\ roof_contour' = roof[1]
          /\ roof_angle' = a
          /\ roof_mask' = roof[2]
    /\ pc' = "obstacles"
    /\ UNCHANGED <<config, gridVars, batchVars, suitVars, detVars,
                   obstacle_mask, usable_mask, placeVars, energyVars, runVars, nmsVars>>

\* obstacle_mask = self._detect_obstacles(image, mask)
DetectObstacles ==
    /\ pc = "obstacles"
    /\ obstacle_mask' = DetectObstaclesOf(gray, roof_mask)
    /\ pc' = "usable"
    /\ UNCHANGED <<config, gridVars, batchVars, suitVars, detVars,
                   gray, roof_contour, roof_angle, roof_mask,
                   usable_mask, placeVars, energyVars, runVars, nmsVars>>

\* The usable mask: the eroded roof mask with the obstacles removed.
ResolveUsable ==
    /\ pc = "usable"
    /\ usable_mask' = UsableOf(roof_mask, obstacle_mask, config)
    /\ pc' = "resolved"
    /\ UNCHANGED <<config, gridVars, batchVars, suitVars, detVars,
                   gray, roof_contour, roof_angle, roof_mask,
                   obstacle_mask, placeVars, energyVars, runVars, nmsVars>>

NextObstacle == StartRooftop \/ DetectObstacles \/ ResolveUsable

SpecObstacle == InitObstacle /\ [][NextObstacle]_vars

\* ------------------------------------------------------------ energy estimate
\* round(num * a / den) for num >= 0, a > 0, den > 0: Python rounds a tie to
\* the even neighbour.  (num is split by den first, to keep the products small.)
RoundScaled(num, a, den) ==
    LET t == (num % den) * a
        fl == (num \div den) * a + t \div den
        rem == t % den
    IN  IF 2 * rem < den THEN fl
        ELSE IF 2 * rem > den THEN fl + 1
        ELSE IF fl % 2 = 0 THEN fl ELSE fl + 1

\* 1 - system losses, in percent: the literal 0.86 of the annual energy line.
SystemFactorPct == 86

\* annual_kwh * 62500 = num_panels * (w_dm * h_dm) * (275 - |lat|)
\*     * efficiency_pct * 43, which is total_area_m2 * (2200 - 8 * |lat|)
\*     * panel_efficiency * 0.86 with 8 * 86 / 10^6 reduced to 43 / 62500.
AnnualNumMutFloorOne(n, cfg) ==
    Max2(n, 1) * (cfg.panel_width_dm * cfg.panel_height_dm)
        * (275 - Abs(cfg.latitude)) * cfg.panel_efficiency_pct * (SystemFactorPct \div 2)
AnnualNum(n, cfg) ==
    n * (cfg.panel_width_dm * cfg.panel_height_dm)
        * (275 - Abs(cfg.latitude)) * cfg.panel_efficiency_pct * (SystemFactorPct \div 2)

\* _calculate_energy(num_panels): capacity and area in hundredths, the daily
\* yield in tenths, the other yields and the CO2 offset in units.
CalculateEnergyOf(n, cfg) ==
    [ system_capacity_kw |-> RoundScaled(n * cfg.panel_power_w, 1, 10),
      total_panel_area_m2 |-> n * (cfg.panel_width_dm * cfg.panel_height_dm),
      estimated_annual_kwh |-> RoundScaled(AnnualNum(n, cfg), 1, 62500),
      estimated_monthly_kwh |-> RoundScaled(AnnualNum(n, cfg), 1, 12 * 62500),
      estimated_daily_kwh |-> RoundScaled(AnnualNum(n, cfg), 1, 365 * 6250),
      co2_offset_kg_year |-> RoundScaled(AnnualNum(n, cfg), 41, 50 * 62500) ]

EnergyConfigs ==
    [ latitude : {-34, 0, 28, 60},
      pixel_to_dm : {5},
      panel_width_dm : {10},
      panel_height_dm : {17, 25},
      panel_efficiency_pct : {15, 20},
      panel_power_w : {300, 415},
      panel_spacing_dm : {1},
      edge_margin_pct : {10},
      system_loss_pct : {0, 14, 25} ]

InitEnergy ==
    /\ config \in EnergyConfigs
    /\ pc = "idle"
    /\ NoRoof
    /\ NoPlacement
    /\ NoEnergy
    /\ NoRun
    /\ NoNms
    /\ NoSuit
    /\ NoLegacy
    /\ NoDet

\* energy_info = self._calculate_energy(len(panels)), for any panel count.
CalculateEnergy ==
    /\ pc \in {"idle", "energy"}
    /\ \E n \in 0 .. MaxPanels :
          /\ num_panels' = n
          /\ energy_info' = CalculateEnergyOf(n, config)
    /\ pc' = "energy"
    /\ UNCHANGED <<config, gridVars, batchVars, suitVars, detVars,
                   roofVars, placeVars, runVars, nmsVars>>

NextEnergy == CalculateEnergy

SpecEnergy == InitEnergy /\ [][NextEnergy]_vars

\* ------------------------------------------------------ analyze_image, main
MaxRooftops == 3

\* sum(a[...] for a in analyses), over a sequence of numbers.
RECURSIVE SumSeq(_)
SumSeq(q) == IF q = << >> THEN 0 ELSE Head(q) + SumSeq(Tail(q))

\* What can be in the image: up to MaxRooftops rooftops, each with the number
\* of panels the placement finds on it, and whether analysing it raises.
Scenes ==
    UNION {[1 .. n -> [panel_count : {0, 2}, raises : BOOLEAN]]
              : n \in 0 .. MaxRooftops}

\* pixel_to_meter is whatever the caller passes (main: --pixel-to-meter, any
\* float); the other entries are within their ranges.
RunConfigs ==
    [ latitude : {28},
      pixel_to_dm : {-10, -5, 0, 5},
      panel_width_dm : {10},
      panel_height_dm : {17},
      panel_efficiency_pct : {20},
      panel_power_w : {300},
      panel_spacing_dm : {1},
      edge_margin_pct : {10},
      system_loss_pct : {14} ]

\* range(0, stop, step) raises ValueError for step 0: the outer range of a
\* pass when step_y = 0, the inner one (reached when the outer range is not
\* empty, that is when step_y > 0) when step_x = 0.
PassRaises(pw, ph, spacing) ==
    \/ StepY(ph, spacing) = 0
    \/ StepY(ph, spacing) > 0 /\ StepX(pw, spacing) = 0

PlacementRaises(cfg) ==
    \/ PassRaises(PassW("landscape", cfg), PassH("landscape", cfg), SpacingPx(cfg))
    \/ PassRaises(PassW("portrait", cfg), PassH("portrait", cfg), SpacingPx(cfg))

\* len(panels) for a rooftop: no position is scanned when the panel size in
\* pixels is not positive (the steps are negative, the ranges empty).
PanelCount(roof, cfg) ==
    IF PanelWidthPx(cfg) <= 0 \/ PanelHeightPx(cfg) <= 0
    THEN 0 ELSE roof.panel_count

\* The dictionary analyze_rooftop returns.
AnalysisOf(roof, cfg) ==
    [ rooftop_id |-> roof.id,
      panel_count |-> PanelCount(roof, cfg),
      energy |-> CalculateEnergyOf(PanelCount(roof, cfg), cfg) ]

\* json_output['summary']
SummaryOf(as) ==
    [ rooftop_count |-> Len(as),
      total_panels |-> SumSeq([i \in 1 .. Len(as) |-> as[i].panel_count]),
      total_capacity_kw |->
          SumSeq([i \in 1 .. Len(as) |-> as[i].energy.system_capacity_kw]),
      total_annual_kwh |->
          SumSeq([i \in 1 .. Len(as) |-> as[i].energy.estimated_annual_kwh]) ]

\* main has parsed its arguments and calls analyze_image(image, config).
InitRun ==
    /\ config \in RunConfigs
    /\ pc = "start"
    /\ image_file \in {"missing", "undecodable", "ok"}
    /\ scene \in Scenes
    /\ detect_called = FALSE
    /\ rooftops = << >>
    /\ cur = 1
    /\ analyses = << >>
    /\ report = << >>
    /\ result = << >>
    /\ raised = "none"
    /\ exit_code = -1
    /\ NoRoof
    /\ NoPlacement
    /\ NoEnergy
    /\ NoNms
    /\ NoSuit
    /\ NoLegacy
    /\ NoDet

\* if not os.path.exists(image_path): raise FileNotFoundError
CheckImagePath ==
    /\ pc = "start"
    /\ IF image_file = "missing"
       THEN raised' = "FileNotFoundError" /\ pc' = "raised"
       ELSE raised' = raised /\ pc' = "load"
    /\ UNCHANGED <<config, gridVars, batchVars, suitVars, detVars,
                   roofVars, placeVars, energyVars, nmsVars, image_file,
                   scene, detect_called, rooftops, cur, analyses, report,
                   result, exit_code>>

\* image = cv2.imread(image_path); if image is None: raise ValueError
LoadImage ==
    /\ pc = "load"
    /\ IF image_file = "undecodable"
       THEN raised' = "ValueError" /\ pc' = "raised"
       ELSE raised' = raised /\ pc' = "detect"
    /\ UNCHANGED <<config, gridVars, batchVars, suitVars, detVars,
                   roofVars, placeVars, energyVars, nmsVars, image_file,
                   scene, detect_called, rooftops, cur, analyses, report,
                   result, exit_code>>

\* The detection numbering its rooftops from 0 (enumerate without the + 1).
DetectRooftopsMutZeroBased ==
    /\ pc = "detect"
    /\ detect_called' = TRUE
    /\ rooftops' = [i \in 1 .. Len(scene) |->
                       [id |-> i - 1, panel_count |-> scene[i].panel_count,
                        raises |-> scene[i].raises]]
    /\ IF Len(scene) = 0
       THEN /\ result' = [success |-> FALSE, error |-> "No rooftops detected",
                          analyses |-> << >>]
            /\ pc' = "returned"
       ELSE /\ result' = result
            /\ pc' = "optimizer"
    /\ UNCHANGED <<config, gridVars, batchVars, suitVars, detVars,
                   roofVars, placeVars, energyVars, nmsVars, image_file,
                   scene, cur, analyses, report, raised, exit_code>>

\* rooftops = detector.detect_rooftops(image), ids 1, 2, ... in order; with no
\* rooftop analyze_image returns its failure dictionary and writes nothing.
DetectRooftops ==
    /\ pc = "detect"
    /\ detect_called' = TRUE
    /\ rooftops' = [i \in 1 .. Len(scene) |->
                       [id |-> i, panel_count |-> scene[i].panel_count,
                        raises |-> scene[i].raises]]
    /\ IF Len(scene) = 0
       THEN /\ result' = [success |-> FALSE, error |-> "No rooftops detected",
                          analyses |-> << >>]
            /\ pc' = "returned"
       ELSE /\ result' = result
            /\ pc' = "optimizer"
    /\ UNCHANGED <<config, gridVars, batchVars, suitVars, detVars,
                   roofVars, placeVars, energyVars, nmsVars, image_file,
                   scene, cur, analyses, report, raised, exit_code>>

\* optimizer = SolarPanelOptimizer(config): __init__ divides by
\* config['pixel_to_meter']; analyses = [] and the loop starts.
ConstructOptimizer ==
    /\ pc = "optimizer"
    /\ IF config.pixel_to_dm = 0
       THEN raised' = "ZeroDivisionError" /\ pc' = "raised"
       ELSE raised' = raised /\ pc' = "analyze"
    /\ analyses' = << >>
    /\ cur' = 1
    /\ UNCHANGED <<config, gridVars, batchVars, suitVars, detVars,
                   roofVars, placeVars, energyVars, nmsVars, image_file,
                   scene, detect_called, rooftops, report, result, exit_code>>

\* One iteration of `for rooftop in rooftops`: the analysis is appended, or
\* the exception analyze_rooftop raises leaves the loop and analyze_image.
AnalyzeRooftop ==
    /\ pc = "analyze"
    /\ cur <= Len(rooftops)
    /\ IF PlacementRaises(config)
       THEN /\ raised' = "ValueError"
            /\ pc' = "raised"
            /\ UNCHANGED <<analyses, cur>>
       ELSE IF rooftops[cur].raises
       THEN /\ raised' = "Exception"
            /\ pc' = "raised"
            /\ UNCHANGED <<analyses, cur>>
       ELSE /\ analyses' = Append(analyses, AnalysisOf(rooftops[cur], config))
            /\ cur' = cur + 1
            /\ UNCHANGED <<raised, pc>>
    /\ UNCHANGED <<config, gridVars, batchVars, suitVars, detVars,
                   roofVars, placeVars, energyVars, nmsVars, image_file,
                   scene, detect_called, rooftops, report, result, exit_code>>

\* After the loop: the summary image and the JSON document are written and
\* the success dictionary is returned.
WriteResults ==
    /\ pc = "analyze"
    /\ cur > Len(rooftops)
    /\ report' = [summary |-> SummaryOf(analyses), rooftops |-> analyses]
    /\ result' = [success |-> TRUE, error |-> "", analyses |-> analyses]
    /\ pc' = "returned"
    /\ UNCHANGED <<config, gridVars, batchVars, suitVars, detVars,
                   roofVars, placeVars, energyVars, nmsVars, image_file,
                   scene, detect_called, rooftops, cur, analyses, raised,
                   exit_code>>

\* main: sys.exit(1) when the result is not a success or an exception was
\* caught; otherwise main returns and the status is 0.
Main ==
    /\ pc \in {"returned", "raised"}
    /\ exit_code' = IF pc = "returned" /\ result.success THEN 0 ELSE 1
    /\ pc' = "exited"
    /\ UNCHANGED <<config, gridVars, batchVars, suitVars, detVars,
                   roofVars, placeVars, energyVars, nmsVars, image_file,
                   scene, detect_called, rooftops, cur, analyses, report,
                   result, raised>>

NextRun ==
    \/ CheckImagePath
    \/ LoadImage
    \/ DetectRooftops
    \/ ConstructOptimizer
    \/ AnalyzeRooftop
    \/ WriteResults
    \/ Main

SpecRun == InitRun /\ [][NextRun]_vars

\* ---------------------------------------------------- non-max suppression
MaxCands == 3

\* overlap_thresh = 0.3, in tenths
OverlapThreshTenths == 3

\* cv2.boundingRect of a candidate contour: <<x, y, w, h>> with w, h >= 1.
\* Positions and sizes are such that two boxes can be disjoint, nested, equal
\* in area, and overlap by less than, exactly, or more than the threshold.
BoxSet ==
    {<<at[1], at[2], sz[1], sz[2]>> :
        at \in {<<0, 0>>, <<1, 1>>, <<2, 1>>},
        sz \in {<<1, 1>>, <<2, 2>>, <<3, 1>>, <<5, 2>>}}

CandidateLists == UNION {[1 .. n -> BoxSet] : n \in 0 .. MaxCands}

\* areas = boxes[:, 2] * boxes[:, 3]
BoxArea(b) == b[3] * b[4]

\* w * h of the intersection of two boxes, each side clamped at 0.
Intersection(a, b) ==
    Max2(0, Min2(a[1] + a[3], b[1] + b[3]) - Max2(a[1], b[1]))
        * Max2(0, Min2(a[2] + a[4], b[2] + b[4]) - Max2(a[2], b[2]))

\* overlap <= overlap_thresh, the overlap of the kept box `a` with the
\* remaining box `b` taken relative to the area of b.
OverlapOkMutKeptArea(a, b) ==
    10 * Intersection(a, b) <= OverlapThreshTenths * BoxArea(a)
OverlapOk(a, b) ==
    10 * Intersection(a, b) <= OverlapThreshTenths * BoxArea(b)

\* np.argsort(areas)[::-1]: the indices by area, largest first; the order
\* among boxes of equal area is whatever the sort leaves.
ArgsortMutAscending(boxes) ==
    {q \in [1 .. Len(boxes) -> 1 .. Len(boxes)] :
        /\ \A i \in 1 .. Len(boxes) : \A j \in 1 .. Len(boxes) :
              i # j => q[i] # q[j]
        /\ \A i \in 1 .. Len(boxes) - 1 :
              BoxArea(boxes[q[i]]) <= BoxArea(boxes[q[i + 1]])}
ArgsortDesc(boxes) ==
    {q \in [1 .. Len(boxes) -> 1 .. Len(boxes)] :
        /\ \A i \in 1 .. Len(boxes) : \A j \in 1 .. Len(boxes) :
              i # j => q[i] # q[j]
        /\ \A i \in 1 .. Len(boxes) - 1 :
              BoxArea(boxes[q[i]]) >= BoxArea(boxes[q[i + 1]])}

\* if len(idxs) == 1: break
BreakNowMutTwo(ix) == Len(ix) <= 2
BreakNow(ix) == Len(ix) = 1

\* idxs[1:][overlap <= overlap_thresh]
Remaining(boxes, ix) ==
    LET Ok(j) == OverlapOk(boxes[ix[1]], boxes[j])
    IN  SelectSeq(Tail(ix), Ok)

\* [contours[i] for i in keep]
Kept(boxes, kp) == [k \in 1 .. Len(kp) |-> boxes[kp[k]]]

\* Entry of _non_max_suppression(contours): the empty list is returned as it
\* is; otherwise the boxes are sorted and keep = [].
EnterNms(contours) ==
    /\ nms_in' = contours
    /\ keep' = << >>
    /\ idxs' \in ArgsortDesc(contours)
    /\ pc' = IF Len(contours) = 0 THEN "nms_return" ELSE "nms_loop"

\* The detector as constructed; the suppression reads nothing of the
\* configuration (overlap_thresh is left at its default).
InitNms ==
    /\ config \in {c \in RunConfigs : c.pixel_to_dm > 0}
    /\ pc = "idle"
    /\ NoRoof
    /\ NoPlacement
    /\ NoEnergy
    /\ NoRun
    /\ NoNms
    /\ NoSuit
    /\ NoLegacy
    /\ NoDet

\* valid_contours = self._non_max_suppression(all_contours)
NmsCall ==
    /\ pc = "idle"
    /\ \E cs \in CandidateLists : EnterNms(cs)
    /\ nms_pass' = 1
    /\ UNCHANGED <<config, gridVars, batchVars, suitVars, detVars,
                   roofVars, placeVars, energyVars, runVars,
                   nms_first, nms_second>>

\* One iteration of `while len(idxs) > 0`.
NmsIterate ==
    /\ pc = "nms_loop"
    /\ keep' = Append(keep, idxs[1])
    /\ IF BreakNow(idxs)
       THEN /\ idxs' = idxs
            /\ pc' = "nms_return"
       ELSE /\ idxs' = Remaining(nms_in, idxs)
            /\ pc' = IF Len(idxs') > 0 THEN "nms_loop" ELSE "nms_return"
    /\ UNCHANGED <<config, gridVars, batchVars, suitVars, detVars,
                   roofVars, placeVars, energyVars, runVars,
                   nms_in, nms_pass, nms_first, nms_second>>

\* return [contours[i] for i in keep]
NmsReturn ==
    /\ pc = "nms_return"
    /\ IF nms_pass = 1
       THEN /\ nms_first' = Kept(nms_in, keep)
            /\ pc' = "nms_again"
            /\ UNCHANGED nms_second
       ELSE /\ nms_second' = Kept(nms_in, keep)
            /\ pc' = "nms_done"
            /\ UNCHANGED nms_first
    /\ UNCHANGED <<config, gridVars, batchVars, suitVars, detVars,
                   roofVars, placeVars, energyVars, runVars,
                   nms_in, idxs, keep, nms_pass>>

\* _non_max_suppression applied to the list it returned.
NmsReapply ==
    /\ pc = "nms_again"
    /\ EnterNms(nms_first)
    /\ nms_pass' = 2
    /\ UNCHANGED <<config, gridVars, batchVars, suitVars, detVars,
                   roofVars, placeVars, energyVars, runVars,
                   nms_first, nms_second>>

NextNms == NmsCall \/ NmsIterate \/ NmsReturn \/ NmsReapply

SpecNms == InitNms /\ [][NextNms]_vars

\* ------------------------------------------------------- suitability rating
MaxRatedPanels == 11
MaxObstacles == 6

\* Area score: rooftop['area_m2'] against 50, 30, 20 (areas in tenths of m2).
AreaPoints(area) ==
    IF area >= 500 THEN 35
    ELSE IF area >= 300 THEN 25
    ELSE IF area >= 200 THEN 15
    ELSE 0

\* Panel count score.
PanelPointsMutSwapped(n) ==
    IF n >= 10 THEN 25
    ELSE IF n >= 5 THEN 35
    ELSE IF n >= 2 THEN 15
    ELSE 0
PanelPoints(n) ==
    IF n >= 10 THEN 35
    ELSE IF n >= 5 THEN 25
    ELSE IF n >= 2 THEN 15
    ELSE 0

\* Shape score: aspect_ratio = width / height, 1 when the height is 0;
\* 0.8 <= r <= 1.5 gives 15, 0.5 <= r <= 2.0 gives 10.
AspectPoints(width, height) ==
    IF height <= 0 THEN 15
    ELSE IF 8 * height <= 10 * width /\ 10 * width <= 15 * height THEN 15
    ELSE IF 5 * height <= 10 * width /\ width <= 2 * height THEN 10
    ELSE 0

\* Obstacle score.
ObstaclePoints(obstacle_count) ==
    IF obstacle_count = 0 THEN 15
    ELSE IF obstacle_count <= 2 THEN 10
    ELSE IF obstacle_count <= 5 THEN 5
    ELSE 0

\* The rating of a score.
RatingOfMutStrict(score) ==
    IF score > 80 THEN "Excellent"
    ELSE IF score > 60 THEN "Good"
    ELSE IF score > 40 THEN "Fair"
    ELSE "Poor"
RatingOf(score) ==
    IF score >= 80 THEN "Excellent"
    ELSE IF score >= 60 THEN "Good"
    ELSE IF score >= 40 THEN "Fair"
    ELSE "Poor"

\* The dictionary _rate_suitability returns.
RateSuitabilityOf(rooftop, num, obstacle_count) ==
    LET score == AreaPoints(rooftop.area_m2)
                   + PanelPoints(num)
                   + AspectPoints(rooftop.bounding_rect.width,
                                  rooftop.bounding_rect.height)
                   + ObstaclePoints(obstacle_count)
    IN  [ score |-> score,
          rating |-> RatingOf(score),
          max_score |-> 100,
          obstacles_found |-> obstacle_count ]

\* Rooftops as _analyze_rooftop describes them: an area in tenths of m2 and
\* the oriented rectangle's sides in tenths of a pixel, width the longer.
RatedRooftops ==
    [ area_m2 : {0, 199, 200, 299, 300, 499, 500, 800},
      bounding_rect : {[width |-> d[1], height |-> d[2]] :
          d \in {<<10, 10>>, <<15, 10>>, <<16, 10>>, <<20, 10>>, <<21, 10>>}} ]

InitSuit ==
    /\ config \in {c \in RunConfigs : c.pixel_to_dm > 0}
    /\ pc = "idle"
    /\ NoRoof
    /\ NoPlacement
    /\ NoEnergy
    /\ NoRun
    /\ NoNms
    /\ NoSuit
    /\ NoLegacy
    /\ NoDet

\* 'suitability': self._rate_suitability(rooftop, len(panels), obstacle_count)
RateSuitability ==
    /\ pc = "idle"
    /\ \E roof \in RatedRooftops, n \in 0 .. MaxRatedPanels,
          oc \in 0 .. MaxObstacles :
          /\ rated' = [rooftop |-> roof, num_panels |-> n, obstacle_count |-> oc]
          /\ suitability' = RateSuitabilityOf(roof, n, oc)
    /\ prev_rated' = << >>
    /\ prev_suitability' = << >>
    /\ pc' = "rated"
    /\ UNCHANGED <<config, gridVars, batchVars, roofVars, placeVars, energyVars, runVars, nmsVars,
                   detVars>>

\* The same rooftop with the same obstacles rated for another panel count.
RateAgain ==
    /\ pc = "rated"
    /\ \E n \in 0 .. MaxRatedPanels :
          /\ rated' = [rated EXCEPT !.num_panels = n]
          /\ suitability' = RateSuitabilityOf(rated.rooftop, n, rated.obstacle_count)
    /\ prev_rated' = rated
    /\ prev_suitability' = suitability
    /\ UNCHANGED <<config, gridVars, batchVars, pc, roofVars, placeVars, energyVars, runVars,
                   nmsVars, detVars>>

NextSuit == RateSuitability \/ RateAgain

SpecSuit == InitSuit /\ [][NextSuit]_vars

\* ------------------------------------------- detect_rooftops: path selection
MaxDetPixels == 20

\* Grey images, flattened: the first k pixels of one value, the others of
\* another, with values on both sides of 200 (white) and of 127 (threshold).
DetImages ==
    {[i \in 1 .. MaxDetPixels |-> IF i <= k THEN hi ELSE lo] :
        k \in 0 .. MaxDetPixels, hi \in {201, 255}, lo \in {0, 128, 200}}

\* np.sum(gray > 200)
WhiteCount(g) == Cardinality({i \in 1 .. Len(g) : g[i] > 200})

\* white_ratio > 0.05 and white_ratio < 0.8, white_ratio = count / gray.size
IsPreSegmentedMutInclusive(g) ==
    /\ 100 * WhiteCount(g) >= 5 * Len(g)
    /\ 100 * WhiteCount(g) <= 80 * Len(g)
IsPreSegmented(g) ==
    /\ 100 * WhiteCount(g) > 5 * Len(g)
    /\ 100 * WhiteCount(g) < 80 * Len(g)

InitDet ==
    /\ config \in {c \in RunConfigs : c.pixel_to_dm > 0}
    /\ pc = "idle"
    /\ NoRoof
    /\ NoPlacement
    /\ NoEnergy
    /\ NoRun
    /\ NoNms
    /\ NoSuit
    /\ NoLegacy
    /\ NoDet

\* detect_rooftops(image) up to its branch: the grey image, the white ratio
\* and the path taken.
SelectPath ==
    /\ pc = "idle"
    /\ \E g \in DetImages :
          /\ det_gray' = g
          /\ det_path' = IF IsPreSegmented(g) THEN "mask" ELSE "raw"
    /\ pc' = "branch"
    /\ UNCHANGED <<config, gridVars, batchVars, roofVars, placeVars, energyVars, runVars, nmsVars,
                   suitVars, det_binary>>

\* The pre-segmented path: cv2.threshold(gray, 127, 255, THRESH_BINARY), then
\* the external contours of the binary image.
ThresholdMask ==
    /\ pc = "branch"
    /\ det_path = "mask"
    /\ det_binary' = {i \in 1 .. Len(det_gray) : det_gray[i] > 127}
    /\ pc' = "contours"
    /\ UNCHANGED <<config, gridVars, batchVars, roofVars, placeVars, energyVars, runVars, nmsVars,
                   suitVars, det_gray, det_path>>

\* The raw-imagery path: multi-scale edge detection, whose contours go to
\* _non_max_suppression.
DetectEdges ==
    /\ pc = "branch"
    /\ det_path = "raw"
    /\ pc' = "suppress"
    /\ UNCHANGED <<config, gridVars, batchVars, roofVars, placeVars, energyVars, runVars, nmsVars,
                   suitVars, detVars>>

NextDet == SelectPath \/ ThresholdMask \/ DetectEdges

SpecDet == InitDet /\ [][NextDet]_vars

\* --------------------------- legacy optimizer (src/SolarPanelOptimizer.py)
\* spacing = 5, the pixels between panels of the legacy grid
GridSpacing == 5

\* The legacy configuration, lengths in decimetres.
GridConfigs ==
    [ panel_width : {5, 10, 15},
      panel_height : {5, 10, 15},
      pixel_to_meter : {5} ]

\* int(self.config["panel_width"] * meter_to_pixel), 1 / pixel_to_meter
\* pixels to the metre.
LegacyPanelPx(len, cfg) == PyInt(len, cfg.pixel_to_meter)

\* num_panels = int(usable_area * 0.90 / panel_area), the usable area being
\* usable_pixels * pixel_to_meter ** 2.
NumPanelsOf(usable_pixels, cfg) ==
    PyInt(9 * usable_pixels * cfg.pixel_to_meter * cfg.pixel_to_meter,
          10 * cfg.panel_width * cfg.panel_height)

\* The usable masks _identify_optimal_zones can hand over: one block, or two
\* blocks of the same size at the first two grid columns.
ZoneMasks ==
    {Listed(Footprint(x, 0, w, h)) :
        x \in {0, GridSpacing + 1}, w \in 0 .. MaskW, h \in 0 .. MaskH}
    \cup {Listed(Footprint(0, 0, w, h) \cup Footprint(w + GridSpacing, 0, w, h)) :
            w \in 1 .. 3, h \in 1 .. 3}

GridW == LegacyPanelPx(config.panel_width, config)
GridH == LegacyPanelPx(config.panel_height, config)
LayoutNumPanels == NumPanelsOf(solar_zones.usable_pixels, config)

\* range(0, h - panel_h, panel_h + spacing), range(0, w - panel_w, ...)
HasGridCandidate ==
    grid_pos[1] < MaskW - GridW /\ grid_pos[2] < MaskH - GridH

NextGridPos ==
    IF grid_pos[1] + GridW + GridSpacing < MaskW - GridW
    THEN <<grid_pos[1] + GridW + GridSpacing, grid_pos[2]>>
    ELSE <<0, grid_pos[2] + GridH + GridSpacing>>

\* np.sum(panel_region) > 0.8 * panel_region.size * 255, the mask being 0
\* or 255 at every pixel.
GridRegionOk(region, mask) ==
    /\ region # {}
    /\ 10 * Cardinality(region \cap mask) > 8 * Cardinality(region)

\* if len(positions) >= max_panels: return positions
GridFull(ps, max_panels) == Len(ps) >= max_panels

InitGrid ==
    /\ config \in GridConfigs
    /\ pc = "idle"
    /\ NoRoof
    /\ NoPlacement
    /\ NoEnergy
    /\ NoRun
    /\ NoNms
    /\ NoSuit
    /\ NoLegacy
    /\ NoDet

\* _calculate_panel_layout(solar_zones, roof_area) up to its call of
\* _generate_panel_grid(mask, panel_width_px, panel_height_px, num_panels).
CalculatePanelLayout ==
    /\ pc = "idle"
    /\ \E m \in ZoneMasks :
          solar_zones' = [usable_mask |-> m, usable_pixels |-> Cardinality(m)]
    /\ positions' = << >>
    /\ grid_pos' = <<0, 0>>
    /\ pc' = "grid"
    /\ UNCHANGED <<config, roofVars, placeVars, energyVars, runVars, nmsVars,
                   suitVars, detVars, panel_layout, batchVars>>

\* One iteration of the inner loop of _generate_panel_grid.
GeneratePanelGrid ==
    /\ pc = "grid"
    /\ HasGridCandidate
    /\ LET region == Footprint(grid_pos[1], grid_pos[2], GridW, GridH)
       IN  IF GridRegionOk(region, solar_zones.usable_mask)
           THEN /\ positions' = Append(positions, grid_pos)
                /\ pc' = IF GridFull(positions', LayoutNumPanels)
                         THEN "grid_return" ELSE "grid"
           ELSE UNCHANGED <<positions, pc>>
    /\ grid_pos' = NextGridPos
    /\ UNCHANGED <<config, roofVars, placeVars, energyVars, runVars, nmsVars,
                   suitVars, detVars, solar_zones, panel_layout, batchVars>>

\* return positions, and the dictionary _calculate_panel_layout returns.
ReturnLayout ==
    /\ \/ pc = "grid_return"
       \/ pc = "grid" /\ ~HasGridCandidate
    /\ panel_layout' = [num_panels |-> LayoutNumPanels,
                        panel_positions |-> positions]
    /\ pc' = "layout"
    /\ UNCHANGED <<config, roofVars, placeVars, energyVars, runVars, nmsVars,
                   suitVars, detVars, solar_zones, positions, grid_pos,
                   batchVars>>

NextGrid == CalculatePanelLayout \/ GeneratePanelGrid \/ ReturnLayout

SpecGrid == InitGrid /\ [][NextGrid]_vars

\* -------- legacy batch_analyze_buildings, run_complete_analysis (src/main.py)
MaxBuildings == 3

\* What analysing each building contour gives: an exception, or an analysis
\* with its estimated annual energy.
BuildingLists ==
    UNION {[1 .. n -> [raises : BOOLEAN, energy : {0, 100, 200}]]
              : n \in 0 .. MaxBuildings}

\* results.sort(key=estimated_annual_energy_kwh, reverse=True): a stable
\* sort, entries of equal energy stay in the order they were appended.
InsertByEnergy(q, r) ==
    LET k == Cardinality({i \in 1 .. Len(q) :
                 q[i].estimated_annual_energy_kwh >= r.estimated_annual_energy_kwh})
    IN  SubSeq(q, 1, k) \o <<r>> \o SubSeq(q, k + 1, Len(q))

RECURSIVE SortByEnergyDesc(_)
SortByEnergyDesc(rs) ==
    IF rs = << >> THEN << >>
    ELSE InsertByEnergy(SortByEnergyDesc(SubSeq(rs, 1, Len(rs) - 1)), rs[Len(rs)])

\* run_complete_analysis has detected and regularized the building contours.
InitBatch ==
    /\ config \in GridConfigs
    /\ pc = "start"
    /\ NoRoof
    /\ NoPlacement
    /\ NoEnergy
    /\ NoRun
    /\ NoNms
    /\ NoSuit
    /\ NoDet
    /\ solar_zones = << >>
    /\ positions = << >>
    /\ grid_pos = <<0, 0>>
    /\ panel_layout = << >>
    /\ regularized \in BuildingLists
    /\ batch_i = 0
    /\ results = << >>
    /\ solar_results = << >>
    /\ annot_i = 0
    /\ labels = << >>
    /\ run_raised = "none"

\* if len(contours) == 0: return; otherwise batch_analyze_buildings is
\* called with the regularized contours.
CallBatch ==
    /\ pc = "start"
    /\ pc' = IF Len(regularized) = 0 THEN "returned" ELSE "batch"
    /\ results' = << >>
    /\ batch_i' = 0
    /\ UNCHANGED <<config, roofVars, placeVars, energyVars, runVars, nmsVars,
                   suitVars, detVars, gridVars, regularized, solar_results,
                   annot_i, labels, run_raised>>

\* One iteration of `for i, contour in enumerate(contours)`: the analysis
\* gets building_id = i + 1 and is appended, or the exception is caught.
BatchAnalyzeBuildingMutAbort ==
    /\ pc = "batch"
    /\ batch_i < Len(regularized)
    /\ IF regularized[batch_i + 1].raises
       THEN /\ batch_i' = Len(regularized)
            /\ UNCHANGED results
       ELSE /\ results' = Append(results,
                   [building_id |-> batch_i + 1,
                    estimated_annual_energy_kwh |-> regularized[batch_i + 1].energy])
            /\ batch_i' = batch_i + 1
    /\ UNCHANGED <<config, roofVars, placeVars, energyVars, runVars, nmsVars,
                   suitVars, detVars, gridVars, pc, regularized, solar_results,
                   annot_i, labels, run_raised>>
BatchAnalyzeBuilding ==
    /\ pc = "batch"
    /\ batch_i < Len(regularized)
    /\ IF regularized[batch_i + 1].raises
       THEN UNCHANGED results
       ELSE results' = Append(results,
                [building_id |-> batch_i + 1,
                 estimated_annual_energy_kwh |-> regularized[batch_i + 1].energy])
    /\ batch_i' = batch_i + 1
    /\ UNCHANGED <<config, roofVars, placeVars, energyVars, runVars, nmsVars,
                   suitVars, detVars, gridVars, pc, regularized, solar_results,
                   annot_i, labels, run_raised>>

\* results.sort(...); return results
BatchReturn ==
    /\ pc = "batch"
    /\ batch_i = Len(regularized)
    /\ solar_results' = SortByEnergyDesc(results)
    /\ pc' = "summary"
    /\ UNCHANGED <<config, roofVars, placeVars, energyVars, runVars, nmsVars,
                   suitVars, detVars, gridVars, regularized, batch_i, results,
                   annot_i, labels, run_raised>>

\* The summary: `if solar_results: ... else: ... return`, then
\* output_image = image.copy() and the annotation loop starts.
PrintSummary ==
    /\ pc = "summary"
    /\ pc' = IF Len(solar_results) = 0 THEN "returned" ELSE "annotate"
    /\ annot_i' = 0
    /\ labels' = << >>
    /\ UNCHANGED <<config, roofVars, placeVars, energyVars, runVars, nmsVars,
                   suitVars, detVars, gridVars, regularized, batch_i, results,
                   solar_results, run_raised>>

\* One iteration of `for i, cnt in enumerate(regularized)`:
\* result = solar_results[i] raises IndexError past the end of the list;
\* otherwise contour i is drawn in the colour of result's rating and
\* labelled with result['building_id'].
AnnotateBuilding ==
    /\ pc = "annotate"
    /\ annot_i < Len(regularized)
    /\ IF annot_i >= Len(solar_results)
       THEN /\ run_raised' = "IndexError"
            /\ pc' = "raised"
            /\ UNCHANGED <<labels, annot_i>>
       ELSE /\ labels' = Append(labels,
                   [i |-> annot_i,
                    building_id |-> solar_results[annot_i + 1].building_id])
            /\ annot_i' = annot_i + 1
            /\ UNCHANGED <<run_raised, pc>>
    /\ UNCHANGED <<config, roofVars, placeVars, energyVars, runVars, nmsVars,
                   suitVars, detVars, gridVars, regularized, batch_i, results,
                   solar_results>>

\* cv2.imwrite(output_path, output_image) after the loop.
SaveAnnotated ==
    /\ pc = "annotate"
    /\ annot_i = Len(regularized)
    /\ pc' = "saved"
    /\ UNCHANGED <<config, roofVars, placeVars, energyVars, runVars, nmsVars,
                   suitVars, detVars, gridVars, batchVars>>

NextBatch ==
    \/ CallBatch
    \/ BatchAnalyzeBuilding
    \/ BatchReturn
    \/ PrintSummary
    \/ AnnotateBuilding
    \/ SaveAnnotated

SpecBatch == InitBatch /\ [][NextBatch]_vars

\* ------------------------------------------------- claims on panel placement
\* An emitted panel's top-left pixel, recovered from its centre and size.
PanelX(p) == (p.center[1] - 50 * p.width) \div 100
PanelY(p) == (p.center[2] - 50 * p.height) \div 100

\* [y, y + panel_h) x [x, x + panel_w), not clipped to the mask.
PanelPixels(p) ==
    (PanelY(p) .. PanelY(p) + p.height - 1) \X (PanelX(p) .. PanelX(p) + p.width - 1)

PassLists == {panels, panels_landscape, panels_portrait}

Disjoint(ps) ==
    \A i \in 1 .. Len(ps) : \A j \in 1 .. Len(ps) :
        i # j => PanelPixels(ps[i]) \cap PanelPixels(ps[j]) = {}

\* C1: the panels emitted by one orientation pass have pairwise disjoint
\* un-rotated footprints: no pixel belongs to the footprints of two of them.
C1_DisjointFootprints == \A ps \in PassLists : Disjoint(ps)

\* A finished pass that emitted at least three panels, each wider than a pixel.
C1_Witness ==
    /\ pc = "portrait"
    /\ Len(panels_landscape) >= 3
    /\ \A i \in 1 .. Len(panels_landscape) : panels_landscape[i].width >= 2

InMask(p) ==
    /\ 0 <= PanelX(p)
    /\ 0 <= PanelY(p)
    /\ PanelX(p) + p.width <= MaskW
    /\ PanelY(p) + p.height <= MaskH

\* C2: every emitted panel's un-rotated footprint lies inside the scanned
\* mask: 0 <= x, 0 <= y, x + panel_w <= mask width, y + panel_h <= mask height.
C2_FootprintInMask ==
    \A ps \in PassLists : \A i \in 1 .. Len(ps) : InMask(ps[i])

\* A panel away from the origin whose footprint ends in the mask's last but
\* one column (the scan stops before a footprint can reach the last).
C2_Witness ==
    \E i \in 1 .. Len(panels) :
        /\ PanelX(panels[i]) > 0
        /\ PanelX(panels[i]) + panels[i].width = MaskW - 1

CornerPoints(p) ==
    { <<PanelY(p), PanelX(p)>>,
      <<PanelY(p), PanelX(p) + p.width>>,
      <<PanelY(p) + p.height, PanelX(p) + p.width>>,
      <<PanelY(p) + p.height, PanelX(p)>> }

\* C3 as claimed: each of the four un-rotated corner points (x, y), (x+w, y),
\* (x+w, y+h), (x, y+h) of an emitted panel is a usable pixel of the usable
\* mask passed to the placement call.
C3_CornersUsable ==
    \A ps \in PassLists : \A i \in 1 .. Len(ps) :
        CornerPoints(ps[i]) \subseteq usable_mask

\* C3 as amended: more than 90% of the pixels of an emitted panel's
\* un-rotated footprint are usable pixels of the usable mask passed to the
\* placement call.
C3_FootprintMostlyUsable ==
    \A ps \in PassLists : \A i \in 1 .. Len(ps) :
        10 * Cardinality(PanelPixels(ps[i]) \cap usable_mask)
            > 9 * Cardinality(PanelPixels(ps[i]))

\* A panel was emitted although a pixel of its footprint is not usable.
C3_Witness ==
    \E i \in 1 .. Len(panels) : ~(PanelPixels(panels[i]) \subseteq usable_mask)

\* ---------------------------------------------- claims on obstacle detection
UniformRoof ==
    \A p \in roof_mask : \A q \in roof_mask : gray[p] = gray[q]

\* C4: when every pixel under a non-empty rooftop mask has the same intensity
\* (standard deviation 0), _detect_obstacles returns an obstacle mask with no
\* obstacle pixel, for every intensity value 0 .. 255.
C4_UniformNoObstacles ==
    (pc \in {"usable", "resolved"} /\ roof_mask # {} /\ UniformRoof)
        => obstacle_mask = {}

\* ------------------------------------------------ claims on the energy model
\* C8: the energy estimate for panel_count = 0 has annual yield 0 and every
\* dependent field (capacity, total panel area, monthly yield, daily yield,
\* CO2 offset) equal to 0.
C8_ZeroPanelsZeroEnergy ==
    (pc = "energy" /\ num_panels = 0)
        => /\ energy_info.estimated_annual_kwh = 0
           /\ energy_info.system_capacity_kw = 0
           /\ energy_info.total_panel_area_m2 = 0
           /\ energy_info.estimated_monthly_kwh = 0
           /\ energy_info.estimated_daily_kwh = 0
           /\ energy_info.co2_offset_kg_year = 0

\* An estimate for no panel, at a latitude that lowers the irradiance.
C8_Witness ==
    /\ pc = "energy"
    /\ num_panels = 0
    /\ config.latitude # 0

\* C9: the annual yield equals panel_count x panel_area_m2 x
\* (2200 - 8 * |latitude|) x efficiency x (1 - system_loss_fraction), with the
\* system-loss fraction the configuration carries (rounded as the estimate is).
C9_AnnualUsesConfiguredLoss ==
    pc = "energy"
        => energy_info.estimated_annual_kwh
             = RoundScaled(num_panels * (config.panel_width_dm * config.panel_height_dm)
                              * (275 - Abs(config.latitude))
                              * config.panel_efficiency_pct,
                           100 - config.system_loss_pct, 125000)

\* ------------------------------------------------- claims on analyze_image
\* C5: when detection finds no rooftop, the pipeline still finishes in a
\* normal, non-error state: an empty collection of results, a report whose
\* aggregates are zero, no error indication, and exit status 0.
C5_NoRooftopsNoError ==
    (pc \in {"returned", "exited"} /\ detect_called /\ rooftops = << >>)
        => /\ result.success
           /\ result.error = ""
           /\ result.analyses = << >>
           /\ report # << >>
           /\ report.summary.rooftop_count = 0
           /\ report.summary.total_panels = 0
           /\ pc = "exited" => exit_code = 0

Ids(q) == {q[i].rooftop_id : i \in 1 .. Len(q)}
NotRaising == {rooftops[i].id : i \in {j \in 1 .. Len(rooftops) : ~rooftops[j].raises}}

\* C6: when analysing one rooftop raises (the image and the configuration
\* being in order), the run is not aborted: it returns its results, which hold
\* exactly the rooftops whose analysis did not raise.
C6_FailureIsolated ==
    (/\ pc = "exited"
     /\ image_file = "ok"
     /\ config.pixel_to_dm > 0
     /\ \E i \in 1 .. Len(rooftops) : rooftops[i].raises)
        => /\ raised = "none"
           /\ result # << >>
           /\ Ids(result.analyses) = NotRaising

\* C7: a configuration whose pixel_to_meter is zero or negative makes the run
\* fail with a configuration error before detect_rooftops is called.
C7_BadConfigFailsBeforeDetection ==
    config.pixel_to_dm <= 0 => ~detect_called


\* ------------------------------------------- claims on non-max suppression
Elements(q) == {q[i] : i \in 1 .. Len(q)}

\* C10: _non_max_suppression applied to the list it returned returns the same
\* set of boundaries, nothing further being removed, whatever the order the
\* sort leaves candidates of equal bounding-box area in.
C10_NmsIdempotent ==
    pc = "nms_done"
        => /\ Elements(nms_second) = Elements(nms_first)
           /\ Len(nms_second) = Len(nms_first)

\* Both applications have returned; the first kept two candidates of equal
\* area and the second took them in the other order.
C10_Witness ==
    /\ pc = "nms_done"
    /\ \E i \in 1 .. Len(nms_first) : \E j \in 1 .. Len(nms_first) :
          i # j /\ BoxArea(nms_first[i]) = BoxArea(nms_first[j])
    /\ nms_second # nms_first


\* The box a lies within the box b.
NestedIn(a, b) ==
    /\ b[1] <= a[1] /\ a[1] + a[3] <= b[1] + b[3]
    /\ b[2] <= a[2] /\ a[2] + a[4] <= b[2] + b[4]

\* The first application has returned and nms_in is still its argument.
FirstReturned == pc = "nms_again" /\ nms_pass = 1

\* C11: of exactly two candidates, the bounding box of one nested in that of
\* the other, _non_max_suppression keeps exactly one, the one whose bounding
\* box is the outer (larger) one.
C11_NestedPairKeepsLarger ==
    \A a \in {1, 2} : \A b \in {1, 2} :
        (FirstReturned /\ Len(nms_in) = 2 /\ a # b /\ NestedIn(nms_in[a], nms_in[b]))
            => /\ Len(nms_first) = 1
               /\ nms_first[1] = nms_in[b]
               /\ BoxArea(nms_first[1]) >= BoxArea(nms_in[a])

\* The smaller, nested candidate came first in the list and was dropped.
C11_Witness ==
    /\ FirstReturned
    /\ Len(nms_in) = 2
    /\ NestedIn(nms_in[1], nms_in[2])
    /\ BoxArea(nms_in[1]) < BoxArea(nms_in[2])
    /\ nms_first = <<nms_in[2]>>


\* ---------------------------------------------- claims on suitability rating
Rank(rating) ==
    CASE rating = "Poor" -> 0
      [] rating = "Fair" -> 1
      [] rating = "Good" -> 2
      [] rating = "Excellent" -> 3

\* C12: for a fixed rooftop and obstacle count, n1 <= n2 implies
\* score(n1) <= score(n2), and the rating for n2 is not a lower band than the
\* rating for n1.
C12_ScoreMonotonicInPanels ==
    (prev_rated # << >> /\ prev_rated.num_panels <= rated.num_panels)
        => /\ prev_suitability.score <= suitability.score
           /\ Rank(prev_suitability.rating) <= Rank(suitability.rating)

\* More panels on the same rooftop raised both the score and the band.
C12_Witness ==
    /\ prev_rated # << >>
    /\ prev_rated.num_panels < rated.num_panels
    /\ prev_suitability.score < suitability.score
    /\ Rank(prev_suitability.rating) < Rank(suitability.rating)

\* The four components as the scoring table gives them.
TableArea(a) ==
    CASE a >= 500 -> 35 [] a \in 300 .. 499 -> 25 [] a \in 200 .. 299 -> 15
      [] OTHER -> 0
TablePanels(n) ==
    CASE n >= 10 -> 35 [] n \in 5 .. 9 -> 25 [] n \in 2 .. 4 -> 15 [] OTHER -> 0
TableAspect(w, h) ==
    CASE 8 * h <= 10 * w /\ 2 * w <= 3 * h -> 15
      [] (h <= 2 * w /\ w <= 2 * h) /\ ~(8 * h <= 10 * w /\ 2 * w <= 3 * h) -> 10
      [] OTHER -> 0
TableObstacles(k) ==
    CASE k = 0 -> 15 [] k \in 1 .. 2 -> 10 [] k \in 3 .. 5 -> 5 [] OTHER -> 0

\* C13: the score is the sum of the four table components, lies in 0 .. 100,
\* and the rating is the band of the score: >= 80 Excellent, >= 60 Good,
\* >= 40 Fair, otherwise Poor.
C13_ScoreIsTableSumAndBand ==
    pc = "rated"
        => /\ suitability.score
                = TableArea(rated.rooftop.area_m2)
                    + TablePanels(rated.num_panels)
                    + TableAspect(rated.rooftop.bounding_rect.width,
                                  rated.rooftop.bounding_rect.height)
                    + TableObstacles(rated.obstacle_count)
           /\ suitability.score \in 0 .. 100
           /\ suitability.rating = "Excellent" <=> suitability.score >= 80
           /\ suitability.rating = "Good" <=> suitability.score \in 60 .. 79
           /\ suitability.rating = "Fair" <=> suitability.score \in 40 .. 59
           /\ suitability.rating = "Poor" <=> suitability.score < 40

\* A rooftop rated exactly at the lower edge of the Excellent band.
C13_Witness ==
    /\ pc = "rated"
    /\ suitability.score = 80
    /\ suitability.rating = "Excellent"

\* -------------------------------------- claims on the orientation and the scan
\* C14: _place_panels_optimized returns the list of one of the two passes:
\* the portrait list when it is strictly longer, the landscape list otherwise
\* (ties included); the returned count is the maximum of the two counts.
C14_ReturnsLargerPassTiesLandscape ==
    pc = "placed"
        => /\ Len(panels_portrait) > Len(panels_landscape) => placed = panels_portrait
           /\ Len(panels_portrait) <= Len(panels_landscape) => placed = panels_landscape
           /\ Len(placed) = Max2(Len(panels_landscape), Len(panels_portrait))

\* Both passes placed the same number of panels, not the same panels.
C14_Witness ==
    /\ pc = "placed"
    /\ Len(panels_landscape) = Len(panels_portrait)
    /\ Len(panels_landscape) >= 1
    /\ panels_landscape # panels_portrait

C16_OversizePanelEmptyPass ==
    LET w == PanelWidthPx(config)
        h == PanelHeightPx(config)
    IN  /\ (pc = "landscape" /\ (w >= MaskW \/ h >= MaskH))
              => scanned = << >> /\ panels = << >>
        /\ (pc = "portrait" /\ (h >= MaskW \/ w >= MaskH))
              => scanned = << >> /\ panels = << >>
        /\ (pc \in {"portrait", "choose", "placed"} /\ (w >= MaskW \/ h >= MaskH))
              => panels_landscape = << >>
        /\ (pc \in {"choose", "placed"} /\ (h >= MaskW \/ w >= MaskH))
              => panels_portrait = << >>

\* The landscape pass has returned for a panel exactly as wide as the mask
\* and lower than it, on a mask with usable pixels.
C16_Witness ==
    /\ pc = "portrait"
    /\ PanelWidthPx(config) = MaskW
    /\ PanelHeightPx(config) \in 1 .. MaskH - 1
    /\ usable_mask # {}
    /\ panels_landscape = << >>


\* The footprint of a candidate, its coverage by the working mask, and its
\* quarter-offset sample points, as the acceptance rule is stated.
CandidatePixels(x, y, w, h) == (y .. y + h - 1) \X (x .. x + w - 1)
QuarterPoints(x, y, w, h) ==
    << <<x + (w \div 4), y + (h \div 4)>>,
       <<x + ((3 * w) \div 4), y + (h \div 4)>>,
       <<x + (w \div 4), y + ((3 * h) \div 4)>>,
       <<x + ((3 * w) \div 4), y + ((3 * h) \div 4)>> >>
InsideCount(x, y, w, h) ==
    Cardinality({i \in 1 .. 4 :
        PointPolygonTest(roof_contour, QuarterPoints(x, y, w, h)[i][1],
                         QuarterPoints(x, y, w, h)[i][2]) >= 0})
MeetsRule(x, y, w, h, mask) ==
    /\ 10 * Cardinality(CandidatePixels(x, y, w, h) \cap mask)
          > 9 * Cardinality(CandidatePixels(x, y, w, h))
    /\ InsideCount(x, y, w, h) >= 3
PassDims ==
    IF pc = "landscape"
    THEN <<PanelWidthPx(config), PanelHeightPx(config)>>
    ELSE <<PanelHeightPx(config), PanelWidthPx(config)>>

\* C19: a step that examines the candidate at pos emits a panel for it if and
\* only if more than 0.90 of its footprint is usable in the working mask and
\* at least 3 of its 4 quarter-offset sample points are inside or on the
\* rooftop boundary; otherwise the list of panels is left as it was.
C19_AcceptedIffCoverageAndSamples ==
    [][scanned' = Append(scanned, pos)
          => IF MeetsRule(pos[1], pos[2], PassDims[1], PassDims[2], available)
             THEN /\ Len(panels') = Len(panels) + 1
                  /\ PanelX(panels'[Len(panels')]) = pos[1]
                  /\ PanelY(panels'[Len(panels')]) = pos[2]
             ELSE panels' = panels]_vars

\* The first candidate of the landscape pass had exactly 0.90 of its footprint
\* usable and its sample points inside, and no panel was emitted for it.
C19_Witness ==
    /\ pc = "landscape"
    /\ Len(scanned) = 1
    /\ panels = << >>
    /\ InsideCount(0, 0, PanelWidthPx(config), PanelHeightPx(config)) >= 3
    /\ Cardinality(CandidatePixels(0, 0, PanelWidthPx(config), PanelHeightPx(config))) > 0
    /\ 10 * Cardinality(CandidatePixels(0, 0, PanelWidthPx(config),
                                         PanelHeightPx(config)) \cap usable_mask)
          = 9 * Cardinality(CandidatePixels(0, 0, PanelWidthPx(config),
                                             PanelHeightPx(config)))


\* The pass has examined its last candidate (the loops have run out).
PassFinished == (pc \in {"landscape", "portrait"} /\ ~HasCandidate) \/ pc = "choose"
FinishedDims ==
    IF pc = "landscape"
    THEN <<PanelWidthPx(config), PanelHeightPx(config)>>
    ELSE <<PanelHeightPx(config), PanelWidthPx(config)>>

\* The positions at multiples of the stride (panel_w + spacing,
\* panel_h + spacing) whose footprint lies within the mask and whose
\* far sides stay `gap` pixels away from the right and bottom edges.
StrideAligned(w, h, gap) ==
    {q \in (0 .. MaskW) \X (0 .. MaskH) :
        /\ q[1] % (w + SpacingPx(config)) = 0
        /\ q[2] % (h + SpacingPx(config)) = 0
        /\ q[1] + w <= MaskW - gap
        /\ q[2] + h <= MaskH - gap}

RowMajor(q) ==
    \A i \in 1 .. Len(q) : \A j \in 1 .. Len(q) :
        i < j => \/ q[i][2] < q[j][2]
                 \/ q[i][2] = q[j][2] /\ q[i][1] < q[j][1]

\* C20: a pass examines candidates in row-major order from (0, 0) at the
\* stride (panel_w + spacing, panel_h + spacing), and examines every
\* stride-aligned position whose footprint lies within the mask, a footprint
\* that ends exactly at the right or bottom edge included (panels of at
\* least one pixel each way).
C20_ScanCoversFullExtent ==
    (PassFinished /\ FinishedDims[1] >= 1 /\ FinishedDims[2] >= 1)
        => /\ RowMajor(scanned)
           /\ StrideAligned(FinishedDims[1], FinishedDims[2], 0)
                 \subseteq {scanned[i] : i \in 1 .. Len(scanned)}

\* C20 as amended: the positions examined, in row-major order, are exactly
\* the stride-aligned positions whose footprint ends at least one pixel
\* before the right edge and before the bottom edge of the mask.
C20_ScanStopsBeforeEdge ==
    PassFinished
        => /\ RowMajor(scanned)
           /\ {scanned[i] : i \in 1 .. Len(scanned)}
                 = StrideAligned(FinishedDims[1], FinishedDims[2], 1)

\* A pass has examined candidates and left out a stride-aligned position
\* whose footprint ends exactly at an edge of the mask.
C20_Witness ==
    /\ PassFinished
    /\ Len(scanned) >= 2
    /\ \E q \in StrideAligned(FinishedDims[1], FinishedDims[2], 0) :
          /\ q \notin {scanned[i] : i \in 1 .. Len(scanned)}
          /\ (q[1] + FinishedDims[1] = MaskW \/ q[2] + FinishedDims[2] = MaskH)


\* C18: rooftop ids are 1 .. n in detection order (positive, pairwise
\* distinct), the rooftops are analysed one after the other in that order,
\* and the i-th record of the output carries rooftop_id = i.
C18_IdsFollowDetectionOrder ==
    /\ Len(rooftops) \in {0, Len(scene)}
    /\ \A i \in 1 .. Len(rooftops) :
          /\ rooftops[i].id = i
          /\ rooftops[i].panel_count = scene[i].panel_count
    /\ Len(analyses) <= Len(rooftops)
    /\ pc = "analyze" => Len(analyses) = cur - 1
    /\ \A i \in 1 .. Len(analyses) :
          /\ analyses[i].rooftop_id = i
          /\ analyses[i].rooftop_id = rooftops[i].id
    /\ (pc \in {"returned", "exited"} /\ raised = "none" /\ Len(rooftops) > 0)
          => /\ Len(result.analyses) = Len(rooftops)
             /\ \A i \in 1 .. Len(rooftops) : result.analyses[i].rooftop_id = i

\* A run over several rooftops has returned its records.
C18_Witness ==
    /\ pc = "returned"
    /\ Len(rooftops) >= 2
    /\ result.success
    /\ Len(result.analyses) = Len(rooftops)


\* ------------------------------------------------ claims on path selection
\* C17: detect_rooftops takes the pre-segmented-mask path exactly when the
\* fraction of pixels brighter than 200 is strictly above 5% and strictly
\* below 80%; at exactly 5%, at exactly 80% and outside the interval it takes
\* the raw-imagery path.
C17_MaskPathIffStrictlyBetween ==
    det_path # "none"
        => /\ det_path \in {"mask", "raw"}
           /\ det_path = "mask"
                <=> /\ 20 * WhiteCount(det_gray) > Len(det_gray)
                    /\ 5 * WhiteCount(det_gray) < 4 * Len(det_gray)

\* An image with exactly 5% of its pixels white went down the raw path.
C17_Witness ==
    /\ pc = "suppress"
    /\ det_path = "raw"
    /\ WhiteCount(det_gray) > 0
    /\ 20 * WhiteCount(det_gray) = Len(det_gray)


KeptIdx == {keep[k] : k \in 1 .. Len(keep)}
SmallerArea(a, b) == Min2(BoxArea(a), BoxArea(b))

\* C21: the result of _non_max_suppression is a sub-list of its argument that
\* holds a candidate of maximal bounding-box area; any two kept candidates
\* intersect in at most 0.3 of the smaller box; every discarded candidate
\* intersects some kept candidate of at least its own area in more than 0.3
\* of its own box.
C21_NmsResultInvariants ==
    FirstReturned
        => /\ KeptIdx \subseteq 1 .. Len(nms_in)
           /\ Len(nms_first) = Cardinality(KeptIdx)
           /\ \A k \in 1 .. Len(nms_first) : nms_first[k] = nms_in[keep[k]]
           /\ Len(nms_in) > 0
                => \E i \in KeptIdx : \A j \in 1 .. Len(nms_in) :
                       BoxArea(nms_in[i]) >= BoxArea(nms_in[j])
           /\ \A i \in KeptIdx : \A j \in KeptIdx :
                 i # j => 10 * Intersection(nms_in[i], nms_in[j])
                             <= 3 * SmallerArea(nms_in[i], nms_in[j])
           /\ \A j \in (1 .. Len(nms_in)) \ KeptIdx :
                 \E i \in KeptIdx :
                     /\ BoxArea(nms_in[i]) >= BoxArea(nms_in[j])
                     /\ 10 * Intersection(nms_in[i], nms_in[j])
                           > 3 * BoxArea(nms_in[j])

\* Of three candidates two were kept although they overlap, one discarded.
C21_Witness ==
    /\ FirstReturned
    /\ Len(nms_in) = 3
    /\ Len(keep) = 2
    /\ Intersection(nms_in[keep[1]], nms_in[keep[2]]) > 0

\* ------------------------------------------------ claims on the roof angle
\* What two panel lists share when only the roof angle differs.
SamePlacement(ps, qs) ==
    /\ Len(ps) = Len(qs)
    /\ \A i \in 1 .. Len(ps) :
          /\ ps[i].panel_id = qs[i].panel_id
          /\ ps[i].center = qs[i].center
          /\ ps[i].width = qs[i].width
          /\ ps[i].height = qs[i].height

SecondCallDone == pc = "placed" /\ before # << >>

\* C22: two calls of _place_panels_optimized with the same usable mask, the
\* same contour and the same configuration but different roof angles return
\* the same number of panels with the same identifiers, centers and pixel
\* dimensions, in both trials and in the returned list.
C22_AngleDoesNotChoosePanels ==
    SecondCallDone =>
        /\ before.angle # roof_angle
        /\ SamePlacement(before.placed, placed)
        /\ SamePlacement(before.landscape, panels_landscape)
        /\ SamePlacement(before.portrait, panels_portrait)

\* Both calls returned panels, and the rotated corners do differ.
C22_Witness ==
    /\ SecondCallDone
    /\ Len(placed) >= 2
    /\ Len(before.placed) >= 2
    /\ placed[1].width # placed[1].height
    /\ placed[1].corners # before.placed[1].corners
    /\ placed[1].rotation_degrees # before.placed[1].rotation_degrees

\* ------------------------------------------- claims on the mask's handling
\* A pass is about to examine its first candidate.
PassStarts == Scanning /\ scanned = << >> /\ panels = << >>

\* np.sum(usable_mask > 0), the pixel count behind usable_area_m2.
UsablePixelCount == Cardinality(usable_mask)

\* C23: a placement pass zeroes only its working copy: no step of the
\* placement changes the usable mask it was given (so the usable area
\* reported afterwards is the one before), and each of the two trials starts
\* from exactly that mask.
C23_UsableMaskUntouched ==
    /\ [](PassStarts => available = usable_mask)
    /\ [][pc # "idle" =>
            /\ usable_mask' = usable_mask
            /\ UsablePixelCount' = UsablePixelCount]_vars

\* The second trial starts after a first trial that placed panels.
C23_Witness ==
    /\ pc = "portrait"
    /\ PassStarts
    /\ Len(panels_landscape) >= 2
    /\ available = usable_mask

\* ---------------------------------------------- claims on the usable mask
\* max(2, int(edge_margin_fraction * max(panel_width_px, panel_height_px)))
EdgeMargin ==
    Max2(2, (config.edge_margin_pct
                * Max2(PanelWidthPx(config), PanelHeightPx(config))) \div 100)

\* The roof mask without its edge margin.
ErodedRoof == Erode(roof_mask, EllipseKernel(EdgeMargin, EdgeMargin))

\* C24: the usable mask is the rooftop mask eroded by the elliptical element
\* of the edge margin, minus the obstacle mask; every usable pixel is a pixel
\* of the rooftop mask and none is a pixel of the obstacle mask.
C24_UsableIsErodedMinusObstacles ==
    pc = "resolved" =>
        /\ usable_mask = ErodedRoof \ obstacle_mask
        /\ usable_mask \subseteq roof_mask
        /\ usable_mask \cap obstacle_mask = {}

\* The margin took pixels off the roof, the obstacles took pixels off the
\* eroded roof, and usable pixels remain.
C24_Witness ==
    /\ pc = "resolved"
    /\ usable_mask # {}
    /\ ErodedRoof # roof_mask
    /\ ErodedRoof \cap obstacle_mask # {}

\* ------------------------------------------------- claims on the panel ids
\* Ids 1, 2, ... in list order, and list order is scan order: a later entry
\* is in the same row further right, or in a row further down.
NumberedRowMajor(ps) ==
    /\ \A i \in 1 .. Len(ps) : ps[i].panel_id = i
    /\ \A i \in 1 .. Len(ps) : \A j \in 1 .. Len(ps) :
          ps[i].panel_id < ps[j].panel_id =>
              \/ PanelY(ps[i]) < PanelY(ps[j])
              \/ PanelY(ps[i]) = PanelY(ps[j]) /\ PanelX(ps[i]) < PanelX(ps[j])

\* C25: panel_count is the number of entries of panels, the panel ids are
\* exactly 1 .. panel_count without gap or repeat, and they follow the
\* row-major acceptance order: a smaller id is never in a later scan row.
C25_IdsNumberRowMajor ==
    /\ \A ps \in PassLists : NumberedRowMajor(ps)
    /\ pc = "placed" =>
          /\ RooftopRecord.panel_count = Len(RooftopRecord.panels)
          /\ {RooftopRecord.panels[i].panel_id :
                 i \in 1 .. Len(RooftopRecord.panels)}
                = 1 .. RooftopRecord.panel_count
          /\ NumberedRowMajor(RooftopRecord.panels)

\* A record whose panels span two scan rows, two of them in one row, taken
\* from the second trial.
C25_Witness ==
    /\ pc = "placed"
    /\ placed = panels_portrait
    /\ panels_landscape # panels_portrait
    /\ RooftopRecord.panel_count >= 3
    /\ PanelY(placed[1]) = PanelY(placed[2])
    /\ PanelY(placed[1]) < PanelY(placed[Len(placed)])

\* ------------------------------------------ claims on the working copy
\* The top-left positions of the panels of the pass.
AcceptedPositions == {<<PanelX(panels[i]), PanelY(panels[i])>> : i \in 1 .. Len(panels)}

\* The scanned candidates that meet the acceptance rule on the usable mask
\* as it was given, each judged on its own.
IndependentlyAccepted ==
    {q \in {scanned[i] : i \in 1 .. Len(scanned)} :
        MeetsRule(q[1], q[2], FinishedDims[1], FinishedDims[2], usable_mask)}

\* C26: zeroing an accepted footprint in the working copy changes the outcome
\* of no later candidate: the positions a pass accepts are the scanned
\* candidates that meet the rule against the unmodified usable mask.
C26_ZeroingChangesNoOutcome ==
    PassFinished => AcceptedPositions = IndependentlyAccepted

\* A finished pass that zeroed several footprints and turned candidates down.
C26_Witness ==
    /\ PassFinished
    /\ Len(panels) >= 3
    /\ Len(scanned) > Len(panels)
    /\ available # usable_mask
    /\ available # {}

\* ------------------------------------------------- claims on the spacing
\* max(1, int(panel_spacing_m / pixel_to_meter))
FlooredSpacing == Max2(1, PyInt(config.panel_spacing_dm, config.pixel_to_dm))

\* The free pixels between two panels along x and along y (negative when
\* their extents overlap on that axis).
GapX(a, b) ==
    Max2(PanelX(a), PanelX(b)) - Min2(PanelX(a) + a.width, PanelX(b) + b.width)
GapY(a, b) ==
    Max2(PanelY(a), PanelY(b)) - Min2(PanelY(a) + a.height, PanelY(b) + b.height)

\* C27: the spacing of a pass is max(1, int(spacing_m / pixel_to_meter)), at
\* least 1 pixel, and any two panels of one pass are separated by a gap of
\* at least that many pixels along the x axis or along the y axis.
C27_PanelsKeepSpacing ==
    /\ SpacingPx(config) = FlooredSpacing
    /\ SpacingPx(config) >= 1
    /\ \A ps \in PassLists : \A i \in 1 .. Len(ps) : \A j \in 1 .. Len(ps) :
          i # j => \/ GapX(ps[i], ps[j]) >= FlooredSpacing
                   \/ GapY(ps[i], ps[j]) >= FlooredSpacing

\* The configured spacing is less than a pixel, and the pass placed panels
\* next to each other in a row and in two rows.
C27_Witness ==
    /\ PassFinished
    /\ PyInt(config.panel_spacing_dm, config.pixel_to_dm) = 0
    /\ Len(panels) >= 3
    /\ GapX(panels[1], panels[2]) = 1
    /\ GapY(panels[1], panels[Len(panels)]) = 1


\* ------------------------------------------- claims on the legacy layout
\* C28: _generate_panel_grid never returns more than max_panels positions:
\* in every panel layout the number of entries of panel_positions is at most
\* num_panels, including when num_panels is 0.
C28_PositionsAtMostNumPanels ==
    pc = "layout" =>
        Len(panel_layout.panel_positions) <= panel_layout.num_panels


\* -------------------------------------------- claims on the legacy batch
\* The buildings among the first n whose analysis does not raise.
Analysable(n) == {k \in 1 .. n : ~regularized[k].raises}

\* The entries are the analyses of the buildings of S, one each, with the
\* building's input position as building_id and its energy.
AnalysesOf(rs, S) ==
    /\ Len(rs) = Cardinality(S)
    /\ {rs[j].building_id : j \in 1 .. Len(rs)} = S
    /\ \A j \in 1 .. Len(rs) :
          rs[j].estimated_annual_energy_kwh = regularized[rs[j].building_id].energy

BatchReturned == pc \in {"summary", "annotate", "saved", "raised"}

\* C29: batch_analyze_buildings analyses every contour in input order with
\* building_id = index + 1, skips a building whose analysis raises without
\* aborting the others, and returns the successful analyses sorted by
\* estimated annual energy, non-increasing, with pairwise distinct ids.
C29_BatchSkipsFailuresAndRanks ==
    /\ pc = "batch" =>
          /\ AnalysesOf(results, Analysable(batch_i))
          /\ \A j \in 1 .. Len(results) - 1 :
                results[j].building_id < results[j + 1].building_id
    /\ BatchReturned =>
          /\ AnalysesOf(solar_results, Analysable(Len(regularized)))
          /\ \A j \in 1 .. Len(solar_results) - 1 :
                solar_results[j].estimated_annual_energy_kwh
                    >= solar_results[j + 1].estimated_annual_energy_kwh
          /\ \A j \in 1 .. Len(solar_results) : \A k \in 1 .. Len(solar_results) :
                j # k => solar_results[j].building_id # solar_results[k].building_id

\* The second of three buildings failed and the ranking put the third first.
C29_Witness ==
    /\ BatchReturned
    /\ Len(regularized) = 3
    /\ regularized[2].raises
    /\ Len(solar_results) = 2
    /\ solar_results[1].building_id = 3
    /\ solar_results[2].building_id = 1

\* C30: every contour of the annotation loop is coloured and labelled with
\* the result of that same building: for every index i the loop uses a
\* result exists and its building_id is i + 1, whatever the ranking and
\* whichever buildings failed.
C30_OutlineGetsOwnResult ==
    /\ run_raised = "none"
    /\ \A k \in 1 .. Len(labels) : labels[k].building_id = labels[k].i + 1

====
